---- MODULE Spec2Model ----
(***************************************************************************)
(* Crime Record Management System: the access gate (middleware.ts), the    *)
(* login route and the incident / evidence route handlers, over the        *)
(* Prisma store.  A request is handled in the steps its handler awaits the *)
(* store in: the gate and everything up to and including the handler's     *)
(* first store read form one step, each later store write another.         *)
(***************************************************************************)
EXTENDS Integers, Sequences, FiniteSets, TLC

(***************************************************************************)
(* Bounds of the model.                                                    *)
(***************************************************************************)
MaxIncidents == 1
MaxEvidence == 1
MaxTicks == 2
MaxTokens == 2
MaxDbEdits == 1
\* The larger store of the specifications about several incidents.
MoreIncidents == 2
MoreEvidence == 2
\* How many incidents the listed store holds.
ListIncidents == 3
\* How many users signup creates.
MaxNewUsers == 2

(***************************************************************************)
(* Program constants.                                                      *)
(***************************************************************************)
\* login/route.ts: .setExpirationTime('1h'), in seconds (NumericDate).
TokenLifetime == 3600
\* api/incidents/route.ts: Math.min(50, limit), the largest page size.
MaxLimit == 50
\* middleware.ts: authHeader.substring(7), the length of 'Bearer '.
BearerLen == 7
\* schemas.ts: CreateUserSchema, password: z.string().min(6).
MinPasswordLen == 6

(***************************************************************************)
(* Values.  A text is a sequence of one-character strings; JavaScript's    *)
(* null is NULL, a one-element sequence whose element is no character.     *)
(***************************************************************************)
NULL == <<"NULL">>
Reason == <<"r">>
Blank == <<" ">>
Empty == <<>>

RECURSIVE TrimLeft(_)
\* String.prototype.trim, left side (zod's .trim()).
TrimLeft(s) ==
    IF s # <<>> /\ Head(s) = " " THEN TrimLeft(Tail(s)) ELSE s

RECURSIVE TrimRight(_)
\* String.prototype.trim, right side.
TrimRight(s) ==
    IF s # <<>> /\ s[Len(s)] = " " THEN TrimRight(SubSeq(s, 1, Len(s) - 1)) ELSE s

\* z.string().trim()
Trim(s) == TrimRight(TrimLeft(s))

\* The days incidents occurred on, the earlier first.
Days == <<"d1", "d2">>
\* An ISO 8601 date-time text of a day, and the date alone.
IsoDatetime(day) == <<day, "T", "Z">>
IsoDate(day) == <<day>>
\* A schema that takes any text that begins with a day.
BeginsWithDay(text) == Len(text) >= 1 /\ \E i \in 1..Len(Days) : text[1] = Days[i]
\* z.string().datetime(): a date with a time and the Z, nothing else.
IsDatetime(text) ==
    /\ Len(text) = 3
    /\ \E i \in 1..Len(Days) : text[1] = Days[i]
    /\ text[2] = "T"
    /\ text[3] = "Z"
\* z.coerce.date(): whatever new Date(text) makes a valid date of.
CoercesToDate(text) ==
    IsDatetime(text) \/ (Len(text) = 1 /\ \E i \in 1..Len(Days) : text[1] = Days[i])
\* new Date(text)
DateOf(text) == text[1]
\* Date.prototype.toISOString, as NextResponse.json writes a date.
toISOString(day) == <<day, "T", ".000", "Z">>

(***************************************************************************)
(* JavaScript numbers: an integer or NaN.                                  *)
(***************************************************************************)
NaN == [nan |-> TRUE, val |-> 0]
Num(n) == [nan |-> FALSE, val |-> n]
\* Math.max(a, b) and Math.min(a, b): NaN when either is.
MathMax(a, b) == IF a.nan \/ b.nan THEN NaN ELSE IF a.val >= b.val THEN a ELSE b
MathMin(a, b) == IF a.nan \/ b.nan THEN NaN ELSE IF a.val <= b.val THEN a ELSE b
Minus(a, b) == IF a.nan \/ b.nan THEN NaN ELSE Num(a.val - b.val)
Times(a, b) == IF a.nan \/ b.nan THEN NaN ELSE Num(a.val * b.val)
\* Math.floor(a / b)
FloorDiv(a, b) == a \div b
\* Math.ceil(a / b) for a >= 0 and b > 0.
CeilDiv(a, b) == (a + b - 1) \div b

Digits == <<"0", "1", "2", "3", "4", "5", "6", "7", "8", "9">>
IsDigit(ch) == \E i \in 1..Len(Digits) : Digits[i] = ch
DigitValue(ch) == (CHOOSE i \in 1..Len(Digits) : Digits[i] = ch) - 1

RECURSIVE DigitsValue(_, _)
\* The value of the digits a text begins with, after the digits read so far.
DigitsValue(s, acc) ==
    IF s # <<>> /\ IsDigit(Head(s))
    THEN DigitsValue(Tail(s), 10 * acc + DigitValue(Head(s)))
    ELSE acc

\* parseInt(text, 10): blanks skipped, a sign, then the digits up to the first
\* character that is none; NaN when there is no digit.
parseInt(text) ==
    LET t == TrimLeft(text)
        signed == t # <<>> /\ Head(t) \in {"-", "+"}
        body == IF signed THEN Tail(t) ELSE t
    IN
    IF body = <<>> \/ ~IsDigit(Head(body)) THEN NaN
    ELSE IF signed /\ Head(t) = "-" THEN Num(0 - DigitsValue(body, 0))
    ELSE Num(DigitsValue(body, 0))

(***************************************************************************)
(* The order of texts, and search in them.                                 *)
(***************************************************************************)
Letters == <<" ", "a", "c", "h", "q", "r", "t", "x", "y", "1", "2", "3">>
Capitals == [Q |-> "q", T |-> "t"]
\* mode: 'insensitive'
LowerCase(ch) == IF ch \in DOMAIN Capitals THEN Capitals[ch] ELSE ch
Lower(text) == [i \in 1..Len(text) |-> LowerCase(text[i])]
Rank(ch) == CHOOSE i \in 1..Len(Letters) : Letters[i] = LowerCase(ch)

RECURSIVE TextBefore(_, _)
\* ORDER BY on a text column: a comes strictly before b.
TextBefore(a, b) ==
    IF b = <<>> THEN FALSE
    ELSE IF a = <<>> THEN TRUE
    ELSE IF Rank(Head(a)) # Rank(Head(b)) THEN Rank(Head(a)) < Rank(Head(b))
    ELSE TextBefore(Tail(a), Tail(b))

\* { contains: needle, mode: 'insensitive' }
Contains(text, needle) ==
    \E i \in 1..(Len(text) + 1) :
        /\ i + Len(needle) - 1 <= Len(text)
        /\ SubSeq(Lower(text), i, i + Len(needle) - 1) = Lower(needle)

\* z.enum(['Open', 'Under Investigation', 'Closed'])
Statuses == {"Open", "Under Investigation", "Closed"}

\* The evidence types of EvidenceCreateSchema.
EvidenceTypes ==
    {"Photo", "Document", "Physical Item", "Statement", "Video", "Audio", "Other"}

(***************************************************************************)
(* Users.  Ids are cuids; the seeded users are an admin and two officers.  *)
(***************************************************************************)
UserIds == {"cu1", "cu2", "cu3"}
\* Strings that match zod's cuid format; "cu9" is a cuid of no user.
Cuids == UserIds \cup {"cu9"}

\* bcrypt.hash(password, SALT_ROUNDS)
Hash(pw) == <<"bcrypt", pw>>
\* bcrypt.compare(password, hash)
Compare(pw, h) == h = Hash(pw)

\* The ids (cuid()) of the users signup creates, in the order it creates them.
NewUserIds == <<"cu4", "cu5", "cu6">>

SeedUsers ==
    [u \in UserIds |->
        [badgeId |-> IF u = "cu1" THEN "ADMIN1"
                     ELSE IF u = "cu2" THEN "OFFICER123" ELSE "OFFICER456",
         password |-> Hash(<<"pw", u>>),
         isAdmin |-> (u = "cu1")]]

(***************************************************************************)
(* Tokens.  A compact JWS is modelled by its header algorithm, the key     *)
(* that signed it and its payload; "garbage" is a string that is no JWS.   *)
(***************************************************************************)
NoSecret == "<unset>"
Secrets == {NoSecret, "k1"}
AttackerKey == "k-attacker"

NoTok ==
    [fmt |-> "none", alg |-> "", key |-> "", userId |-> "", badgeId |-> "",
     isAdmin |-> FALSE, iat |-> 0, exp |-> 0]

\* new jose.SignJWT(payload).setProtectedHeader({alg}).setIssuedAt()
\*   .setExpirationTime('1h').sign(key), at time now.
SignJWT(payload, alg, key, now) ==
    [fmt |-> "jws", alg |-> alg, key |-> key, userId |-> payload.userId,
     badgeId |-> payload.badgeId, isAdmin |-> payload.isAdmin,
     iat |-> now, exp |-> now + TokenLifetime]

\* A verification that never looks at the exp claim.
jwtVerifyIgnoringExp(tokenString, key, algorithms, now) ==
    LET t == tokenString.tok IN
    IF tokenString.text # <<>> \/ t.fmt # "jws" THEN "ERR_JWS_INVALID"
    ELSE IF t.alg \notin algorithms THEN "ERR_JOSE_ALG_NOT_ALLOWED"
    ELSE IF t.key # key THEN "ERR_JWS_SIGNATURE_VERIFICATION_FAILED"
    ELSE "ok"

\* A verification that still accepts a token at the second its exp claim names.
jwtVerifyLateExpiry(tokenString, key, algorithms, now) ==
    LET t == tokenString.tok IN
    IF tokenString.text # <<>> \/ t.fmt # "jws" THEN "ERR_JWS_INVALID"
    ELSE IF t.alg \notin algorithms THEN "ERR_JOSE_ALG_NOT_ALLOWED"
    ELSE IF t.key # key THEN "ERR_JWS_SIGNATURE_VERIFICATION_FAILED"
    ELSE IF t.exp < now THEN "ERR_JWT_EXPIRED"
    ELSE "ok"

\* jose.jwtVerify(token, key, {algorithms}) at time now: the error code it
\* throws, or "ok".  tokenString is what follows 'Bearer ': stray text and
\* then the token.
jwtVerify(tokenString, key, algorithms, now) ==
    LET t == tokenString.tok IN
    IF tokenString.text # <<>> \/ t.fmt # "jws" THEN "ERR_JWS_INVALID"
    ELSE IF t.alg \notin algorithms THEN "ERR_JOSE_ALG_NOT_ALLOWED"
    ELSE IF t.key # key THEN "ERR_JWS_SIGNATURE_VERIFICATION_FAILED"
    ELSE IF t.exp <= now THEN "ERR_JWT_EXPIRED"
    ELSE "ok"

\* error.code?.startsWith('ERR_JWT')
StartsWithErrJwt(code) ==
    code \in {"ERR_JWT_EXPIRED", "ERR_JWT_INVALID", "ERR_JWT_CLAIM_VALIDATION_FAILED"}

(***************************************************************************)
(* Request headers.  The Authorization header is its leading text followed *)
(* by a token (a serialised token holds no space); the other headers are a *)
(* function from header names to strings.                                  *)
(***************************************************************************)
BearerPrefix == <<"B", "e", "a", "r", "e", "r", " ">>
NoAuth == [present |-> FALSE, text |-> <<>>, tok |-> NoTok]
Bearer(t) == [present |-> TRUE, text |-> BearerPrefix, tok |-> t]
AuthWith(prefix, t) == [present |-> TRUE, text |-> prefix, tok |-> t]

\* A test of the header's length only.
HasSevenChars(h) == Len(h.text) >= BearerLen
\* authHeader.startsWith('Bearer ')
StartsWithBearer(h) ==
    /\ Len(h.text) >= BearerLen
    /\ SubSeq(h.text, 1, BearerLen) = BearerPrefix

\* authHeader.substring(7)
Substring7(h) ==
    [text |-> SubSeq(h.text, BearerLen + 1, Len(h.text)), tok |-> h.tok]

\* !token : the empty string (or undefined) is falsy.
NoTokenString == [text |-> <<>>, tok |-> NoTok]

NullHeader == "<null>"
\* Headers.get(name)
HeaderGet(h, k) == IF k \in DOMAIN h THEN h[k] ELSE NullHeader
\* Headers.append(name, value) followed by get() reads the first value.
HeaderKeepFirst(h, k, v) ==
    [x \in DOMAIN h \cup {k} |-> IF x \in DOMAIN h THEN h[x] ELSE v]
\* Headers.set(name, value)
HeaderSet(h, k, v) ==
    [x \in DOMAIN h \cup {k} |-> IF x = k THEN v ELSE h[x]]
\* !value for a header value: null and '' are falsy.
Falsy(v) == v \in {NullHeader, ""}
\* String(boolean)
BoolString(b) == IF b THEN "true" ELSE "false"
NoHeaders == [x \in {} |-> ""]

(***************************************************************************)
(* Requests.  A body is the payload's syntax (does JSON.parse accept it)   *)
(* and the parsed object, a function from the keys present to values.      *)
(***************************************************************************)
NoData == [x \in {} |-> ""]
Merge(f, g) ==
    [x \in DOMAIN f \cup DOMAIN g |-> IF x \in DOMAIN f THEN f[x] ELSE g[x]]
NoBody == [syntax |-> TRUE, obj |-> NoData]
BadJson == [syntax |-> FALSE, obj |-> NoData]
Json(o) == [syntax |-> TRUE, obj |-> o]
NoReq ==
    [kind |-> "none", id |-> 0, evId |-> 0, auth |-> NoAuth, xhdr |-> NoHeaders,
     body |-> NoBody]

VARIABLES
    limits,          \* how many incidents and evidence items a behaviour creates
    secret,          \* process.env.JWT_SECRET
    users,           \* table users: id -> [badgeId, password, isAdmin]
    incidents,       \* table incidents: id -> [caseNumber, occurredAt, location,
                     \*   crimeType, description, status, closingReason,
                     \*   reportedById]
    evidence,        \* table evidence: id -> [incidentId, addedById, type]
    nextIncidentId,  \* the next fresh incident id (cuid())
    nextEvidenceId,  \* the next fresh evidence id (cuid())
    clock,           \* server time, in seconds
    ticks,           \* how often the clock advanced
    dbEdits,         \* how often a user's admin flag was edited in the database
    issued,          \* the tokens login has issued
    discarded,       \* the issued tokens a client logout has discarded
    pending,         \* per connection: the request awaiting its store write
    last,            \* the response the latest step sent, if it sent one
    deleted204,      \* per resource: how many DELETEs of it answered 204
    client           \* the browser client: sessionStorage and AuthProvider's state

vars ==
    <<limits, secret, users, incidents, evidence, nextIncidentId, nextEvidenceId, clock,
      ticks, dbEdits, issued, discarded, pending, last, deleted204, client>>

store == <<incidents, evidence, nextIncidentId, nextEvidenceId>>

Connections == {1, 2}

\* Of a request: its route and path ids, the userId and isAdmin claims of the
\* token it presented, the X-User-* headers its client set, and the handler
\* of the browser client that sent it (flow), if one did.
Sent(r) ==
    [kind |-> r.kind, id |-> r.id, evId |-> r.evId, tokUid |-> r.auth.tok.userId,
     tokAdmin |-> r.auth.tok.isAdmin, xhdr |-> r.xhdr,
     flow |-> IF "flow" \in DOMAIN r THEN r.flow ELSE ""]
NoSent == Sent(NoReq)

Idle ==
    [sent |-> NoSent, uid |-> "", admin |-> FALSE, op |-> "idle", data |-> NoData]
\* Of a response: the request it answers, whether the gate let the request
\* through (ran), the identity the handler read, the status and message, and
\* the id of the row a create returned, and of a list the page and its
\* pagination (found: the ids that matched when the page was read), and the
\* incident a create or a fetch by id returned (record).
NoList ==
    [query |-> NoData, incidents |-> <<>>, currentPage |-> 0, totalPages |-> 0,
     totalCount |-> 0, limit |-> 0, found |-> {}]
NoLast ==
    [sent |-> NoSent, ran |-> FALSE, uid |-> "", admin |-> FALSE, status |-> 0,
     msg |-> "", newId |-> 0, list |-> NoList, record |-> NoData]

ResourceKeys ==
    ({"incident"} \X (1..ListIncidents)) \cup ({"evidence"} \X (1..MoreEvidence))

\* The browser client before AuthProvider mounts: sessionStorage's authToken
\* (storage), the state of AuthProvider (token; claims holds userId, badgeId and
\* isAdmin, which are set and cleared together; isLoading), the route the
\* provider pushed last, and the response the page handled last.  NoTok is
\* null; NoData is the three claims being null.
NoClient ==
    [storage |-> NoTok, token |-> NoTok, claims |-> NoData, isLoading |-> TRUE,
     pushed |-> "", handled |-> NoLast]

SmallStore == [incidents |-> MaxIncidents, evidence |-> MaxEvidence]
LargerStore == [incidents |-> MoreIncidents, evidence |-> MoreEvidence]
ListedStore == [incidents |-> ListIncidents, evidence |-> MaxEvidence]

\* The server as it starts, with a store that holds up to l rows.
InitServer(l) ==
    /\ limits = l
    /\ secret \in Secrets
    /\ users = SeedUsers
    /\ incidents = [x \in {} |-> NoData]
    /\ evidence = [x \in {} |-> NoData]
    /\ nextIncidentId = 1
    /\ nextEvidenceId = 1
    /\ clock = 0
    /\ ticks = 0
    /\ dbEdits = 0
    /\ issued = {}
    /\ discarded = {}
    /\ pending = [c \in Connections |-> Idle]
    /\ last = NoLast
    /\ deleted204 = [k \in ResourceKeys |-> 0]

InitWith(l) == InitServer(l) /\ client = NoClient

Init == InitWith(SmallStore)

(***************************************************************************)
(* The access gate: middleware(request).                                   *)
(***************************************************************************)
GateReject(status, msg) ==
    [next |-> FALSE, status |-> status, msg |-> msg, headers |-> NoHeaders]

\* requestHeaders.set('X-User-Id', ...), set('X-User-BadgeId', ...),
\* set('X-User-IsAdmin', String(payload.isAdmin)) on the cloned headers.
InjectClaims(requestHeaders, payload) ==
    HeaderSet(
        HeaderSet(
            HeaderSet(requestHeaders, "X-User-Id", payload.userId),
            "X-User-BadgeId", payload.badgeId),
        "X-User-IsAdmin", BoolString(payload.isAdmin))

\* The message of the catch block, by jose's error code.
VerifyFailureMessage(code) ==
    IF code = "ERR_JWT_EXPIRED" THEN "Token has expired."
    ELSE IF StartsWithErrJwt(code) THEN "Invalid token (verification failed)."
    ELSE IF code = "ERR_JOSE_GENERIC" THEN "Token processing failed."
    ELSE "Invalid or expired token."

middleware(request) ==
    LET authHeader == request.auth
        token ==
            IF authHeader.present /\ StartsWithBearer(authHeader)
            THEN Substring7(authHeader)
            ELSE NoTokenString
    IN
    IF token = NoTokenString
    THEN GateReject(401, "Authentication required.")
    ELSE IF secret = NoSecret
    THEN GateReject(500, "Internal server configuration error.")
    ELSE LET code == jwtVerify(token, secret, {"HS256"}, clock) IN
         IF code = "ok"
         THEN [next |-> TRUE, status |-> 200, msg |-> "",
               headers |-> InjectClaims(request.xhdr, token.tok)]
         ELSE GateReject(401, VerifyFailureMessage(code))

(***************************************************************************)
(* What a handler's first step yields: a response (op = "done") or a store *)
(* write it awaits (op names the write, data holds its arguments).         *)
(***************************************************************************)
Rejected(g) ==
    [ran |-> FALSE, uid |-> "", admin |-> FALSE, status |-> g.status,
     msg |-> g.msg, op |-> "done", data |-> NoData]
Replied(uid, admin, status, msg) ==
    [ran |-> TRUE, uid |-> uid, admin |-> admin, status |-> status,
     msg |-> msg, op |-> "done", data |-> NoData]
Awaiting(uid, admin, op, data) ==
    [ran |-> TRUE, uid |-> uid, admin |-> admin, status |-> 0,
     msg |-> "", op |-> op, data |-> data]

(***************************************************************************)
(* lib/schemas.ts and the schema of app/api/incidents/route.ts.            *)
(***************************************************************************)
RequiredTexts == {"location", "crimeType", "description"}
\* An update schema that lets the reporter through as well.
UpdateSchemaKeysAndReporter ==
    {"occurredAt", "status", "closingReason", "location", "crimeType", "description",
     "reportedById"}
\* The keys of IncidentUpdateSchema: the mutable fields of an incident.
UpdateSchemaKeys == {"occurredAt", "status", "closingReason"} \cup RequiredTexts

\* IncidentUpdateSchema.safeParse(body).success
IncidentUpdateSchemaOk(obj) ==
    /\ "occurredAt" \in DOMAIN obj => CoercesToDate(obj["occurredAt"])
    /\ \A k \in RequiredTexts \cap DOMAIN obj : Trim(obj[k]) # Empty
    /\ "status" \in DOMAIN obj => obj["status"] \in Statuses
    /\ (DOMAIN obj \cap UpdateSchemaKeys) # {}

\* IncidentUpdateSchema.safeParse(body).data: unknown keys stripped, texts
\* trimmed, the date coerced.
IncidentUpdateSchemaData(obj) ==
    [k \in DOMAIN obj \cap UpdateSchemaKeys |->
        IF k = "occurredAt" THEN DateOf(obj[k])
        ELSE IF k \in RequiredTexts THEN Trim(obj[k])
        ELSE IF k = "closingReason" /\ obj[k] # NULL THEN Trim(obj[k])
        ELSE obj[k]]

\* if (validatedData.status && validatedData.status !== 'Closed')
ForcesNullReason(validatedData) ==
    "status" \in DOMAIN validatedData /\ validatedData["status"] # "Closed"

\* The updateData of PATCH, its undefined keys deleted.
UpdateData(validatedData) ==
    LET keys ==
            DOMAIN validatedData
                \cup (IF ForcesNullReason(validatedData) THEN {"closingReason"} ELSE {})
    IN
    [k \in keys |->
        IF k = "closingReason"
        THEN IF ForcesNullReason(validatedData) THEN NULL
             ELSE IF validatedData[k] = Empty THEN NULL ELSE validatedData[k]
        ELSE validatedData[k]]

\* An update that never reopens a closed incident.
ApplyUnlessClosed(row, data) ==
    [k \in DOMAIN row |->
        IF k \in DOMAIN data /\ ~(k = "status" /\ row[k] = "Closed") THEN data[k]
        ELSE row[k]]
\* prisma.incident.update({ where: { id }, data })
ApplyUpdate(row, data) ==
    [k \in DOMAIN row |-> IF k \in DOMAIN data THEN data[k] ELSE row[k]]

\* IncidentCreateSchema.safeParse(body).success (api/incidents/route.ts)
IncidentCreateSchemaOk(obj) ==
    /\ "occurredAt" \in DOMAIN obj
    /\ IsDatetime(obj["occurredAt"])
    /\ RequiredTexts \subseteq DOMAIN obj
    /\ \A k \in RequiredTexts : Trim(obj[k]) # Empty
    /\ "reportedById" \in DOMAIN obj
    /\ obj["reportedById"] \in Cuids
    /\ "status" \in DOMAIN obj => obj["status"] \in Statuses

\* EvidenceCreateSchema.safeParse(body).success
EvidenceCreateSchemaOk(obj) ==
    /\ {"description", "type", "storageReference"} \subseteq DOMAIN obj
    /\ Trim(obj["description"]) # Empty
    /\ obj["type"] \in EvidenceTypes
    /\ Trim(obj["storageReference"]) # Empty

\* CreateUserSchema.safeParse(body).success
CreateUserSchemaOk(obj) ==
    /\ {"badgeId", "name", "password"} \subseteq DOMAIN obj
    /\ Trim(obj["badgeId"]) # Empty
    /\ Trim(obj["name"]) # Empty
    /\ Len(obj["password"]) >= MinPasswordLen

\* The badge id a text spells: a text here is a word between blanks.
BadgeOf(text) == IF text = Empty THEN "" ELSE text[1]

(***************************************************************************)
(* The authorization checks of the three guarded handlers.                 *)
(***************************************************************************)
\* A check that exempts nobody but the owner.
OwnerOnlyForbidden(isAdmin, ownerId, loggedInUserId) ==
    ownerId # loggedInUserId
\* A check that is missing.
NeverForbidden(isAdmin, ownerId, loggedInUserId) ==
    FALSE
\* PATCH: if (!isAdmin && incident.reportedById !== loggedInUserId)
IncidentPatchForbidden(isAdmin, reportedById, loggedInUserId) ==
    ~isAdmin /\ reportedById # loggedInUserId
\* DELETE: if (!isAdmin && incident.reportedById !== loggedInUserId)
IncidentDeleteForbidden(isAdmin, reportedById, loggedInUserId) ==
    ~isAdmin /\ reportedById # loggedInUserId
\* evidence DELETE: if (!isAdmin && evidenceItem.addedById !== loggedInUserId)
EvidenceDeleteForbidden(isAdmin, addedById, loggedInUserId) ==
    ~isAdmin /\ addedById # loggedInUserId

\* An admin flag read from the user's row instead of the header.
IsAdminInDatabase(headers) ==
    /\ HeaderGet(headers, "X-User-Id") \in DOMAIN users
    /\ users[HeaderGet(headers, "X-User-Id")].isAdmin
\* const isAdmin = isAdminString === 'true'
IsAdminHeader(headers) == HeaderGet(headers, "X-User-IsAdmin") = "true"

(***************************************************************************)
(* The first step of each handler, as a function of the request and the    *)
(* current state.                                                          *)
(***************************************************************************)
\* PATCH /api/incidents/:id up to the update it awaits.
IncidentPatchOutcome(r) ==
    LET g == middleware(r)
        loggedInUserId == HeaderGet(g.headers, "X-User-Id")
        isAdmin == IsAdminHeader(g.headers)
    IN
    IF ~g.next THEN Rejected(g)
    ELSE IF Falsy(loggedInUserId)
    THEN Replied(loggedInUserId, isAdmin, 401, "User ID not found.")
    ELSE IF r.id \notin DOMAIN incidents
    THEN Replied(loggedInUserId, isAdmin, 404, "Incident <id> not found.")
    ELSE IF IncidentPatchForbidden(isAdmin, incidents[r.id].reportedById, loggedInUserId)
    THEN Replied(loggedInUserId, isAdmin, 403, "Forbidden: Not authorized.")
    ELSE IF ~r.body.syntax
    THEN Replied(loggedInUserId, isAdmin, 400, "Invalid JSON payload.")
    ELSE IF ~IncidentUpdateSchemaOk(r.body.obj)
    THEN Replied(loggedInUserId, isAdmin, 400, "Invalid input.")
    ELSE LET updateData == UpdateData(IncidentUpdateSchemaData(r.body.obj)) IN
         IF DOMAIN updateData = {}
         THEN Replied(loggedInUserId, isAdmin, 400,
                      "No valid fields provided for update after processing.")
         ELSE Awaiting(loggedInUserId, isAdmin, "update", updateData)

\* DELETE /api/incidents/:id up to the delete it awaits.
IncidentDeleteOutcome(r) ==
    LET g == middleware(r)
        loggedInUserId == HeaderGet(g.headers, "X-User-Id")
        isAdmin == IsAdminHeader(g.headers)
    IN
    IF ~g.next THEN Rejected(g)
    ELSE IF Falsy(loggedInUserId)
    THEN Replied(loggedInUserId, isAdmin, 401, "User ID not found.")
    ELSE IF r.id \notin DOMAIN incidents
    THEN Replied(loggedInUserId, isAdmin, 404, "Incident <id> not found.")
    ELSE IF IncidentDeleteForbidden(isAdmin, incidents[r.id].reportedById, loggedInUserId)
    THEN Replied(loggedInUserId, isAdmin, 403, "Forbidden: Not authorized.")
    ELSE Awaiting(loggedInUserId, isAdmin, "delete", NoData)

\* A create that lets the body name the adder.
AddedByBody(loggedInUserId, obj) ==
    IF "addedById" \in DOMAIN obj THEN obj["addedById"] ELSE loggedInUserId
\* data: { ..., addedById: loggedInUserId }: the adder, whatever the body holds.
AddedBy(loggedInUserId, obj) == loggedInUserId

\* POST /api/incidents/:id/evidence up to the create it awaits.
EvidencePostOutcome(r) ==
    LET g == middleware(r)
        loggedInUserId == HeaderGet(g.headers, "X-User-Id")
    IN
    IF ~g.next THEN Rejected(g)
    ELSE IF Falsy(loggedInUserId)
    THEN Replied(loggedInUserId, FALSE, 401, "Authentication required.")
    ELSE IF r.id \notin DOMAIN incidents
    THEN Replied(loggedInUserId, FALSE, 404, "Incident with ID <id> not found.")
    ELSE IF ~r.body.syntax
    THEN Replied(loggedInUserId, FALSE, 400, "Invalid JSON payload.")
    ELSE IF ~EvidenceCreateSchemaOk(r.body.obj)
    THEN Replied(loggedInUserId, FALSE, 400, "Invalid input.")
    ELSE Awaiting(loggedInUserId, FALSE, "evcreate",
                  [type |-> r.body.obj["type"],
                   addedById |-> AddedBy(loggedInUserId, r.body.obj)])

\* A handler that takes any incident id in the path.
AnyPath(evId, id) == FALSE
\* evidenceItem.incidentId !== incidentId
OtherIncident(evId, id) == evidence[evId].incidentId # id

\* DELETE /api/incidents/:id/evidence/:evidenceId up to the delete it awaits.
EvidenceDeleteOutcome(r) ==
    LET g == middleware(r)
        loggedInUserId == HeaderGet(g.headers, "X-User-Id")
        isAdmin == IsAdminHeader(g.headers)
    IN
    IF ~g.next THEN Rejected(g)
    ELSE IF Falsy(loggedInUserId)
    THEN Replied(loggedInUserId, isAdmin, 401, "Authentication required.")
    ELSE IF r.evId \notin DOMAIN evidence
    THEN Replied(loggedInUserId, isAdmin, 404, "Evidence with ID <id> not found.")
    ELSE IF OtherIncident(r.evId, r.id)
    THEN Replied(loggedInUserId, isAdmin, 400, "Evidence does not belong to incident.")
    ELSE IF EvidenceDeleteForbidden(isAdmin, evidence[r.evId].addedById, loggedInUserId)
    THEN Replied(loggedInUserId, isAdmin, 403,
                 "Forbidden: You are not authorized to delete this evidence.")
    ELSE Awaiting(loggedInUserId, isAdmin, "evdelete", NoData)

\* POST /api/incidents: the whole handler up to the create.
\* Every incident is created Open.
AlwaysOpen(obj) == "Open"
\* status || 'Open'
StatusOrOpen(obj) == IF "status" \in DOMAIN obj THEN obj["status"] ELSE "Open"
IncidentPostOutcome(r) ==
    LET g == middleware(r) IN
    IF ~g.next THEN Rejected(g)
    ELSE IF ~r.body.syntax
    THEN Replied("", FALSE, 400, "Invalid JSON payload.")
    ELSE IF ~IncidentCreateSchemaOk(r.body.obj)
    THEN Replied("", FALSE, 400, "Invalid input.")
    ELSE IF r.body.obj["reportedById"] \notin DOMAIN users
    THEN Replied("", FALSE, 400, "Reporting user not found or invalid.")
    ELSE Awaiting("", FALSE, "create",
                  [occurredAt |-> DateOf(r.body.obj["occurredAt"]),
                   location |-> Trim(r.body.obj["location"]),
                   crimeType |-> Trim(r.body.obj["crimeType"]),
                   description |-> Trim(r.body.obj["description"]),
                   reportedById |-> r.body.obj["reportedById"],
                   status |-> StatusOrOpen(r.body.obj)])

\* prisma.user.findUnique({ where: { badgeId } })
UsersWithBadge(badgeId) == {u \in DOMAIN users : users[u].badgeId = badgeId}

\* POST /api/users up to the create it awaits.
\* A create that takes the flag from the request body.
IsAdminOfBody(obj) == "isAdmin" \in DOMAIN obj /\ obj["isAdmin"]
\* prisma.user.create names badgeId, name and password; the column isAdmin
\* takes its default, false, whatever the body holds.
NewUserIsAdmin(obj) == FALSE
UserPostOutcome(r) ==
    IF ~r.body.syntax
    THEN Replied("", FALSE, 400, "Invalid JSON payload.")
    ELSE IF ~CreateUserSchemaOk(r.body.obj)
    THEN Replied("", FALSE, 400, "Invalid input.")
    ELSE LET badgeId == BadgeOf(Trim(r.body.obj["badgeId"])) IN
         IF UsersWithBadge(badgeId) # {}
         THEN Replied("", FALSE, 409, "User with badge ID <badgeId> already exists.")
         ELSE Awaiting("", FALSE, "usercreate",
                       [badgeId |-> badgeId, password |-> Hash(r.body.obj["password"]),
                        isAdmin |-> NewUserIsAdmin(r.body.obj)])

\* GET /api/incidents: the list route; its answer is a page of incidents.
IncidentListOutcome(r) ==
    LET g == middleware(r) IN
    IF ~g.next THEN Rejected(g) ELSE Replied("", FALSE, 200, "")

\* The fields GET /api/incidents sorts by.
allowedSortByFields == {"reportedAt", "occurredAt", "status", "crimeType", "location"}
SortOrders == {"asc", "desc"}

\* searchParams.get(name) || fallback, for page, limit and searchQuery, which
\* the model keeps as texts, and for the other parameters, which it keeps as
\* strings: null and the empty string give the fallback.
TextOr(query, name, fallback) ==
    IF name \in DOMAIN query /\ query[name] # Empty THEN query[name] ELSE fallback
StringOr(query, name, fallback) ==
    IF name \in DOMAIN query /\ query[name] # "" THEN query[name] ELSE fallback

\* A handler that filters by no status.
NoStatusFilter(query) == ""
\* whereClause.status: the status parameter when it is one of the statuses.
StatusFilter(query) ==
    IF StringOr(query, "status", "") \in Statuses THEN query["status"] ELSE ""

\* GET /api/incidents: what the handler makes of the query before it reads
\* the store.
ListPlan(query) ==
    LET page == parseInt(TextOr(query, "page", <<"1">>))
        limit == parseInt(TextOr(query, "limit", <<"1", "0">>))
        validatedPage == MathMax(Num(1), page)
        validatedLimit == MathMax(Num(1), MathMin(Num(MaxLimit), limit))
        sortBy == StringOr(query, "sortBy", "reportedAt")
        sortOrder == StringOr(query, "sortOrder", "desc")
    IN
    [validatedPage |-> validatedPage,
     validatedLimit |-> validatedLimit,
     skip |-> Times(Minus(validatedPage, Num(1)), validatedLimit),
     status |-> StatusFilter(query),
     search |-> IF Trim(TextOr(query, "searchQuery", Empty)) # Empty
                THEN query["searchQuery"] ELSE Empty,
     orderBy |-> IF sortBy \in allowedSortByFields /\ sortOrder \in SortOrders
                 THEN [field |-> sortBy, order |-> sortOrder]
                 ELSE [field |-> "reportedAt", order |-> "desc"]]

\* caseNumber String @unique @default(cuid())
CaseNumberOf(id) == <<"c", Digits[id + 1]>>
\* An incident as the list returns it.  reportedAt @default(now()): incidents
\* are reported in the order of their ids.
IncidentRow(id) ==
    Merge([id |-> id, reportedAt |-> id], incidents[id])

\* whereClause: the status filter and the OR of the four contains.
Matches(row, plan) ==
    /\ plan.status # "" => row.status = plan.status
    /\ plan.search # Empty
          => \/ Contains(row.caseNumber, plan.search)
             \/ Contains(row.crimeType, plan.search)
             \/ Contains(row.location, plan.search)
             \/ Contains(row.description, plan.search)
Matching(plan) == {id \in DOMAIN incidents : Matches(IncidentRow(id), plan)}

\* The statuses in the order of their texts.
StatusOrder == <<"Closed", "Open", "Under Investigation">>
StatusRank(status) == CHOOSE i \in 1..Len(StatusOrder) : StatusOrder[i] = status
DayRank(day) == CHOOSE i \in 1..Len(Days) : Days[i] = day
\* ORDER BY field ASC puts row a strictly before row b.
Before(a, b, field) ==
    CASE field = "reportedAt" -> a.reportedAt < b.reportedAt
      [] field = "occurredAt" -> DayRank(a.occurredAt) < DayRank(b.occurredAt)
      [] field = "status" -> StatusRank(a.status) < StatusRank(b.status)
      [] field = "crimeType" -> TextBefore(a.crimeType, b.crimeType)
      [] field = "location" -> TextBefore(a.location, b.location)
      [] field = "caseNumber" -> TextBefore(a.caseNumber, b.caseNumber)

\* A sequence of rows is in the order of the clause.
InOrder(rows, orderBy) ==
    \A i, j \in 1..Len(rows) :
        i < j => IF orderBy.order = "asc"
                 THEN ~Before(rows[j], rows[i], orderBy.field)
                 ELSE ~Before(rows[i], rows[j], orderBy.field)

\* The orders the database may return the matching rows in: rows with equal
\* sort keys come in any order.
Orderings(ids, orderBy) ==
    {o \in [1..Cardinality(ids) -> ids] :
        /\ \A i, j \in 1..Cardinality(ids) : o[i] = o[j] => i = j
        /\ InOrder([i \in 1..Cardinality(ids) |-> IncidentRow(o[i])], orderBy)}

\* skip and take
PageOf(o, skip, take) ==
    [i \in 1..(IF Len(o) - skip < 0 THEN 0
               ELSE IF Len(o) - skip < take THEN Len(o) - skip ELSE take) |->
        o[skip + i]]

\* GET /api/incidents/:id
IncidentGetOutcome(r) ==
    LET g == middleware(r) IN
    IF ~g.next THEN Rejected(g)
    ELSE IF r.id \notin DOMAIN incidents
    THEN Replied("", FALSE, 404, "Incident with ID <id> not found.")
    ELSE Replied("", FALSE, 200, "")

\* GET /api/incidents/:id/evidence
EvidenceGetOutcome(r) ==
    LET g == middleware(r)
        loggedInUserId == HeaderGet(g.headers, "X-User-Id")
    IN
    IF ~g.next THEN Rejected(g)
    ELSE IF Falsy(loggedInUserId)
    THEN Replied(loggedInUserId, FALSE, 401, "Authentication required.")
    ELSE IF r.id \notin DOMAIN incidents
    THEN Replied(loggedInUserId, FALSE, 404, "Incident with ID <id> not found.")
    ELSE Replied(loggedInUserId, FALSE, 200, "")

ReadRoutes ==
    {"GET /api/incidents", "GET /api/incidents/:id", "GET /api/incidents/:id/evidence"}

\* The route files of app/api/incidents: the handler a request is routed to.
Outcome(r) ==
    CASE r.kind = "GET /api/incidents" -> IncidentListOutcome(r)
      [] r.kind = "POST /api/incidents" -> IncidentPostOutcome(r)
      [] r.kind = "GET /api/incidents/:id" -> IncidentGetOutcome(r)
      [] r.kind = "PATCH /api/incidents/:id" -> IncidentPatchOutcome(r)
      [] r.kind = "DELETE /api/incidents/:id" -> IncidentDeleteOutcome(r)
      [] r.kind = "GET /api/incidents/:id/evidence" -> EvidenceGetOutcome(r)
      [] r.kind = "POST /api/incidents/:id/evidence" -> EvidencePostOutcome(r)
      [] r.kind = "DELETE /api/incidents/:id/evidence/:evidenceId" ->
            EvidenceDeleteOutcome(r)

(***************************************************************************)
(* Steps.                                                                  *)
(***************************************************************************)
Respond(sent, out, status, msg, newId) ==
    last' = [sent |-> sent, ran |-> out.ran, uid |-> out.uid, admin |-> out.admin,
             status |-> status, msg |-> msg, newId |-> newId, list |-> NoList,
             record |-> NoData]
\* A response whose body is an incident.
RespondWith(sent, out, status, newId, record) ==
    last' = [sent |-> sent, ran |-> out.ran, uid |-> out.uid, admin |-> out.admin,
             status |-> status, msg |-> "", newId |-> newId, list |-> NoList,
             record |-> record]
\* NextResponse.json(incident): the row with its date written as a text.
JsonOf(row) == [row EXCEPT !.occurredAt = toISOString(@)]

\* The first step of a handler that awaits a store write on connection c.
Start(c, r, out) ==
    /\ pending[c] = Idle
    /\ IF out.op = "done"
       THEN /\ Respond(Sent(r), out, out.status, out.msg, 0)
            /\ pending' = pending
       ELSE /\ pending' = [pending EXCEPT ![c] =
                              [sent |-> Sent(r), uid |-> out.uid, admin |-> out.admin,
                               op |-> out.op, data |-> out.data]]
            /\ last' = NoLast
    /\ UNCHANGED <<client, limits, secret, users, store, clock, ticks, dbEdits, issued, discarded,
                   deleted204>>

\* The step that ends the request of connection c with a response.
Finish(c, status, msg, newId) ==
    /\ Respond(pending[c].sent,
               [ran |-> TRUE, uid |-> pending[c].uid, admin |-> pending[c].admin],
               status, msg, newId)
    /\ pending' = [pending EXCEPT ![c] = Idle]
    /\ UNCHANGED <<client, limits, secret, users, clock, ticks, dbEdits, issued, discarded>>

\* A store whose update and delete accept a row that is not there.
NoRowError(table, id) == "none"
\* Prisma: update or delete of a row that is not there throws P2025.
RowError(table, id) == IF id \in DOMAIN table THEN "none" ELSE "P2025"
\* Prisma: a create whose foreign key has no row throws P2003.
ForeignKeyError(table, id) == IF id \in DOMAIN table THEN "none" ELSE "P2003"
Without(table, ids) == [x \in DOMAIN table \ ids |-> table[x]]
With(table, id, row) ==
    [x \in DOMAIN table \cup {id} |-> IF x = id THEN row ELSE table[x]]

\* The catch block of PATCH /api/incidents/:id.
IncidentPatchErrorStatus(code) ==
    IF code = "P2025" THEN 404 ELSE IF code = "P2023" THEN 400 ELSE 500
\* A catch block without the P2025 case.
GenericErrorStatus(code) ==
    IF code = "P2023" THEN 400 ELSE 500
\* The catch block of DELETE /api/incidents/:id.
IncidentDeleteErrorStatus(code) ==
    IF code = "P2025" THEN 404 ELSE IF code = "P2023" THEN 400 ELSE 500
\* The catch block of DELETE /api/incidents/:id/evidence/:evidenceId.
EvidenceDeleteErrorStatus(code) ==
    IF code = "P2025" THEN 404 ELSE IF code = "P2023" THEN 400 ELSE 500
\* The catch block of POST /api/incidents/:id/evidence.
EvidencePostErrorStatus(code) ==
    IF code = "P2023" THEN 400 ELSE IF code = "P2003" THEN 400 ELSE 500

Bump(k) == deleted204' = [deleted204 EXCEPT ![k] = @ + 1]

\* A relation that deletes nothing with the incident.
NoCascade(id) == {}
\* onDelete: Cascade: the evidence rows deleted with incident id.
Cascade(id) == {e \in DOMAIN evidence : evidence[e].incidentId = id}

\* The GET handlers: they read the store and answer.
ReadGET(r) ==
    /\ r.kind \in ReadRoutes \ {"GET /api/incidents"}
    /\ IF r.kind = "GET /api/incidents/:id" /\ Outcome(r).status = 200
       THEN RespondWith(Sent(r), Outcome(r), 200, 0, JsonOf(IncidentRow(r.id)))
       ELSE Respond(Sent(r), Outcome(r), Outcome(r).status, Outcome(r).msg, 0)
    /\ UNCHANGED <<client, limits, secret, users, store, clock, ticks, dbEdits, issued, discarded,
                   pending, deleted204>>

\* Prisma: skip and take that are no integers are refused before any query.
ValidationError(plan) ==
    IF plan.skip.nan \/ plan.validatedLimit.nan THEN "PrismaClientValidationError"
    ELSE "none"

\* GET /api/incidents through the first query of its transaction, findMany.
IncidentListGET(c, r, query) ==
    /\ r.kind = "GET /api/incidents"
    /\ pending[c] = Idle
    /\ LET out == IncidentListOutcome(r)
           plan == ListPlan(query)
       IN
       IF out.status # 200
       THEN /\ Respond(Sent(r), out, out.status, out.msg, 0)
            /\ pending' = pending
       ELSE IF ValidationError(plan) # "none"
       THEN /\ Respond(Sent(r), out, 500, "Failed to retrieve incidents.", 0)
            /\ pending' = pending
       ELSE \E o \in Orderings(Matching(plan), plan.orderBy) :
               /\ pending' = [pending EXCEPT ![c] =
                     [sent |-> Sent(r), uid |-> out.uid, admin |-> out.admin,
                      op |-> "count",
                      data |-> [query |-> query,
                                incidents |->
                                    PageOf([i \in 1..Len(o) |-> IncidentRow(o[i])],
                                           plan.skip.val, plan.validatedLimit.val),
                                found |-> Matching(plan)]]]
               /\ last' = NoLast
    /\ UNCHANGED <<client, limits, secret, users, store, clock, ticks, dbEdits, issued, discarded,
                   deleted204>>

\* GET /api/incidents: the second query of the transaction, count, and the
\* response.
IncidentListCount(c) ==
    /\ pending[c].op = "count"
    /\ LET plan == ListPlan(pending[c].data.query)
           totalCount == Cardinality(Matching(plan))
       IN
       last' = [sent |-> pending[c].sent, ran |-> TRUE, uid |-> pending[c].uid,
                admin |-> pending[c].admin, status |-> 200, msg |-> "", newId |-> 0,
                list |-> [query |-> pending[c].data.query,
                          incidents |-> pending[c].data.incidents,
                          currentPage |-> plan.validatedPage.val,
                          totalPages |-> CeilDiv(totalCount, plan.validatedLimit.val),
                          totalCount |-> totalCount,
                          limit |-> plan.validatedLimit.val,
                          found |-> pending[c].data.found],
                record |-> NoData]
    /\ pending' = [pending EXCEPT ![c] = Idle]
    /\ UNCHANGED <<client, limits, secret, users, store, clock, ticks, dbEdits, issued, discarded,
                   deleted204>>

\* POST /api/incidents
IncidentPOST(r) ==
    /\ r.kind = "POST /api/incidents"
    /\ LET out == IncidentPostOutcome(r) IN
       IF out.op = "done"
       THEN /\ Respond(Sent(r), out, out.status, out.msg, 0)
            /\ UNCHANGED store
       ELSE /\ nextIncidentId <= limits.incidents
            /\ incidents' = With(incidents, nextIncidentId,
                                 Merge(out.data,
                                       [closingReason |-> NULL,
                                        caseNumber |-> CaseNumberOf(nextIncidentId)]))
            /\ nextIncidentId' = nextIncidentId + 1
            /\ RespondWith(Sent(r), out, 201, nextIncidentId,
                           JsonOf(Merge([id |-> nextIncidentId,
                                         reportedAt |-> nextIncidentId,
                                         closingReason |-> NULL,
                                         caseNumber |-> CaseNumberOf(nextIncidentId)],
                                        out.data)))
            /\ UNCHANGED <<evidence, nextEvidenceId>>
    /\ UNCHANGED <<client, limits, secret, users, clock, ticks, dbEdits, issued, discarded, pending,
                   deleted204>>

\* PATCH /api/incidents/:id, through its authorization and validation.
IncidentPATCH(c, r) ==
    /\ r.kind = "PATCH /api/incidents/:id"
    /\ Start(c, r, IncidentPatchOutcome(r))

\* PATCH: await prisma.incident.update(...) and the response.
IncidentPATCHUpdate(c) ==
    /\ pending[c].op = "update"
    /\ LET id == pending[c].sent.id
           code == RowError(incidents, id)
       IN
       IF code = "none"
       THEN /\ incidents' = [incidents EXCEPT ![id] = ApplyUpdate(@, pending[c].data)]
            /\ Finish(c, 200, "", 0)
       ELSE /\ incidents' = incidents
            /\ Finish(c, IncidentPatchErrorStatus(code), "Incident not found.", 0)
    /\ UNCHANGED <<evidence, nextIncidentId, nextEvidenceId, deleted204>>

\* DELETE /api/incidents/:id, through its authorization.
IncidentDELETE(c, r) ==
    /\ r.kind = "DELETE /api/incidents/:id"
    /\ Start(c, r, IncidentDeleteOutcome(r))

\* DELETE: await prisma.incident.delete(...), the cascade to its evidence
\* (onDelete: Cascade) and the response.
IncidentDELETEDelete(c) ==
    /\ pending[c].op = "delete"
    /\ LET id == pending[c].sent.id
           code == RowError(incidents, id)
       IN
       IF code = "none"
       THEN /\ incidents' = Without(incidents, {id})
            /\ evidence' = Without(evidence, Cascade(id))
            /\ Bump(<<"incident", id>>)
            /\ Finish(c, 204, "", 0)
       ELSE /\ UNCHANGED <<incidents, evidence, deleted204>>
            /\ Finish(c, IncidentDeleteErrorStatus(code), "Incident not found.", 0)
    /\ UNCHANGED <<nextIncidentId, nextEvidenceId>>

\* POST /api/incidents/:id/evidence, through its lookup and validation.
EvidencePOST(c, r) ==
    /\ r.kind = "POST /api/incidents/:id/evidence"
    /\ LET out == EvidencePostOutcome(r) IN
       /\ (out.op = "done"
             \/ nextEvidenceId
                  + Cardinality({d \in Connections : pending[d].op = "evcreate"})
                  <= limits.evidence)
       /\ Start(c, r, out)

\* POST evidence: await prisma.evidence.create(...) and the response.
EvidencePOSTCreate(c) ==
    /\ pending[c].op = "evcreate"
    /\ LET id == pending[c].sent.id
           code == IF ForeignKeyError(incidents, id) = "none"
                   THEN ForeignKeyError(users, pending[c].uid)
                   ELSE "P2003"
       IN
       IF code = "none"
       THEN /\ evidence' = With(evidence, nextEvidenceId,
                                [incidentId |-> id, addedById |-> pending[c].data.addedById,
                                 type |-> pending[c].data.type])
            /\ nextEvidenceId' = nextEvidenceId + 1
            /\ Finish(c, 201, "", nextEvidenceId)
       ELSE /\ UNCHANGED <<evidence, nextEvidenceId>>
            /\ Finish(c, EvidencePostErrorStatus(code),
                      "Foreign key constraint violation.", 0)
    /\ UNCHANGED <<incidents, nextIncidentId, deleted204>>

\* DELETE /api/incidents/:id/evidence/:evidenceId, through its guards.
EvidenceDELETE(c, r) ==
    /\ r.kind = "DELETE /api/incidents/:id/evidence/:evidenceId"
    /\ Start(c, r, EvidenceDeleteOutcome(r))

\* DELETE evidence: await prisma.evidence.delete(...) and the response.
EvidenceDELETEDelete(c) ==
    /\ pending[c].op = "evdelete"
    /\ LET id == pending[c].sent.evId
           code == RowError(evidence, id)
       IN
       IF code = "none"
       THEN /\ evidence' = Without(evidence, {id})
            /\ Bump(<<"evidence", id>>)
            /\ Finish(c, 204, "", 0)
       ELSE /\ UNCHANGED <<evidence, deleted204>>
            /\ Finish(c, EvidenceDeleteErrorStatus(code), "Evidence with ID <id> not found.", 0)
    /\ UNCHANGED <<incidents, nextIncidentId, nextEvidenceId>>

\* A users table whose badgeId column has no unique index.
NoUniqueIndex(badgeId) == "none"
\* Prisma: a create that repeats a @unique badgeId throws P2002.
UniqueError(badgeId) == IF UsersWithBadge(badgeId) # {} THEN "P2002" ELSE "none"
\* The catch block of POST /api/users.
UserPostErrorStatus(code) == IF code = "P2002" THEN 409 ELSE 500

\* POST /api/users, through its validation and lookup.
UserPOST(c, r) ==
    /\ r.kind = "POST /api/users"
    /\ LET out == UserPostOutcome(r) IN
       /\ (out.op = "done"
             \/ Cardinality(DOMAIN users) - Cardinality(UserIds)
                  + Cardinality({d \in Connections : pending[d].op = "usercreate"})
                  < MaxNewUsers)
       /\ Start(c, r, out)

\* POST /api/users: await prisma.user.create(...) and the response.
UserPOSTCreate(c) ==
    /\ pending[c].op = "usercreate"
    /\ LET code == UniqueError(pending[c].data.badgeId)
           id == NewUserIds[Cardinality(DOMAIN users) - Cardinality(UserIds) + 1]
       IN
       IF code = "none"
       THEN /\ users' = With(users, id,
                             [badgeId |-> pending[c].data.badgeId,
                              password |-> pending[c].data.password,
                              isAdmin |-> pending[c].data.isAdmin])
            /\ last' = [sent |-> pending[c].sent, ran |-> TRUE, uid |-> "",
                        admin |-> FALSE, status |-> 201, msg |-> "", newId |-> id,
                        list |-> NoList, record |-> NoData]
       ELSE /\ users' = users
            /\ last' = [sent |-> pending[c].sent, ran |-> TRUE, uid |-> "",
                        admin |-> FALSE, status |-> UserPostErrorStatus(code),
                        msg |-> "Unique constraint violation.", newId |-> 0,
                        list |-> NoList, record |-> NoData]
    /\ pending' = [pending EXCEPT ![c] = Idle]
    /\ UNCHANGED <<client, limits, secret, store, clock, ticks, dbEdits, issued, discarded,
                   deleted204>>

\* A payload built from the user record as it was seeded.
SeedPayload(id) ==
    [userId |-> id, badgeId |-> SeedUsers[id].badgeId, isAdmin |-> SeedUsers[id].isAdmin]
\* login/route.ts: the payload, from the user record just fetched.
LoginPayload(id) ==
    [userId |-> id, badgeId |-> users[id].badgeId, isAdmin |-> users[id].isAdmin]

\* POST /api/auth/login: the status, the message and the token of the answer.
LoginOutcome(badgeId, password) ==
    LET found == UsersWithBadge(badgeId)
        id == CHOOSE u \in found : TRUE
        answer(status, msg, token) == [status |-> status, msg |-> msg, token |-> token]
    IN
    IF badgeId = "" \/ password = <<>>
    THEN answer(400, "Invalid input.", NoTok)
    ELSE IF found = {} \/ ~Compare(password, users[id].password)
    THEN answer(401, "Invalid credentials.", NoTok)
    ELSE IF secret = NoSecret
    THEN answer(500, "Authentication configuration error.", NoTok)
    ELSE answer(200, "", SignJWT(LoginPayload(id), "HS256", secret, clock))

\* POST /api/auth/login
Login(badgeId, password) ==
    LET r == [NoReq EXCEPT !.kind = "POST /api/auth/login",
                           !.body = Json([badgeId |-> badgeId, password |-> password])]
        out == LoginOutcome(badgeId, password)
        none == [ran |-> FALSE, uid |-> "", admin |-> FALSE]
    IN
    /\ out.status = 200 => Cardinality(issued \cup {out.token}) <= MaxTokens
    /\ issued' = IF out.status = 200 THEN issued \cup {out.token} ELSE issued
    /\ Respond(Sent(r), none, out.status, out.msg, 0)
    /\ UNCHANGED <<client, limits, secret, users, store, clock, ticks, dbEdits, discarded, pending,
                   deleted204>>

\* AuthContext.logout(): the client drops its token; the server is not told.
Logout(t) ==
    /\ t \in issued \ discarded
    /\ discarded' = discarded \cup {t}
    /\ last' = NoLast
    /\ UNCHANGED <<client, limits, secret, users, store, clock, ticks, dbEdits, issued, pending,
                   deleted204>>

\* Time passes.
Tick(d) ==
    /\ ticks < MaxTicks
    /\ clock' = clock + d
    /\ ticks' = ticks + 1
    /\ last' = NoLast
    /\ UNCHANGED <<client, limits, secret, users, store, dbEdits, issued, discarded, pending,
                   deleted204>>

\* The isAdmin column of a user is edited in the database (no route does it).
DbSetAdmin(u, b) ==
    /\ dbEdits < MaxDbEdits
    /\ u \in DOMAIN users
    /\ users[u].isAdmin # b
    /\ users' = [users EXCEPT ![u].isAdmin = b]
    /\ dbEdits' = dbEdits + 1
    /\ last' = NoLast
    /\ UNCHANGED <<client, limits, secret, store, clock, ticks, issued, discarded, pending,
                   deleted204>>

(***************************************************************************)
(* The requests clients send.                                              *)
(***************************************************************************)
Requests(kind, ids, evIds, auths, xhdrs, bodies) ==
    [kind : {kind}, id : ids, evId : evIds, auth : auths, xhdr : xhdrs, body : bodies]

PathIncidentIds == 1..(MaxIncidents + 1)
PathEvidenceIds == 1..MaxEvidence

StatusOptions == {NoData} \cup {[status |-> v] : v \in Statuses \cup {"Bogus"}}
ReasonOptions ==
    {NoData} \cup {[closingReason |-> v] : v \in {NULL, Empty, Blank, Reason}}
PatchBodies ==
    {BadJson} \cup {Json(Merge(a, b)) : a \in StatusOptions, b \in ReasonOptions}
ClosePatch == Json([status |-> "Closed", closingReason |-> Reason])

\* What the incident form sends of the incident itself.
Theft ==
    [occurredAt |-> IsoDatetime("d1"), location |-> <<"q", "a">>,
     crimeType |-> <<"t", "h">>, description |-> <<"x">>]
\* The body the incident form sends: the reporter is the logged-in user.
OwnPost(auth) == Json(Merge([reportedById |-> auth.tok.userId], Theft))
PostBodiesOf(auth) ==
    {OwnPost(auth), BadJson, Json(NoData)}
        \cup {Json(Merge(o, Theft)) :
                o \in {[reportedById |-> "cu2", status |-> "Closed",
                        closingReason |-> Reason],
                       [reportedById |-> "cu3", status |-> "Under Investigation"],
                       [reportedById |-> "cu9"],
                       [reportedById |-> "not-a-cuid"],
                       [reportedById |-> "cu2", status |-> "Bogus"]}}

PhotoBody ==
    Json([description |-> <<"d">>, type |-> "Photo", storageReference |-> <<"s">>])
EvidenceBodies ==
    {PhotoBody, BadJson,
     Json([description |-> <<" ">>, type |-> "Photo", storageReference |-> <<"s">>]),
     Json([description |-> <<"d">>, type |-> "Bogus", storageReference |-> <<"s">>])}

LoginInputs(U) ==
    {<<users[u].badgeId, <<"pw", u>> >> : u \in U}
        \cup {<<"OFFICER123", <<"wrong">> >>, <<"NOBODY", <<"pw", "cu2">> >>,
              <<"", <<"pw", "cu2">> >>}

\* Clients that present the token login gave them.
BearerAuths == {Bearer(t) : t \in issued}

\* Tokens this server did not issue: signed with another key, unsigned, no JWS
\* at all, or (when no secret is configured) signed with a key once in use.
ForgedTokens ==
    {[fmt |-> "jws", alg |-> "HS256", key |-> AttackerKey, userId |-> "cu1",
      badgeId |-> "ADMIN1", isAdmin |-> TRUE, iat |-> clock,
      exp |-> clock + TokenLifetime],
     [fmt |-> "jws", alg |-> "none", key |-> "", userId |-> "cu1",
      badgeId |-> "ADMIN1", isAdmin |-> TRUE, iat |-> clock,
      exp |-> clock + TokenLifetime],
     [NoTok EXCEPT !.fmt = "garbage"]}
        \cup (IF secret = NoSecret
              THEN {SignJWT([userId |-> "cu2", badgeId |-> "OFFICER123",
                             isAdmin |-> FALSE], "HS256", "k1", clock)}
              ELSE {})
\* Leading texts of an Authorization header that are not 'Bearer '.
OtherPrefixes ==
    {<<>>, <<"b", "e", "a", "r", "e", "r", " ">>, <<"B", "a", "s", "i", "c", " ">>,
     <<"B", "e", "a", "r", "e", "r">>}
\* No Authorization header, or one that does not start with 'Bearer '.
NoBearerAuths ==
    {NoAuth} \cup {AuthWith(p, NoTok) : p \in OtherPrefixes}
        \cup {AuthWith(p, t) : p \in OtherPrefixes \ {<<>>}, t \in issued}
\* 'Bearer ' and nothing after it.
EmptyBearerAuths == {Bearer(NoTok)}
\* 'Bearer ' and a token that does not verify.
BadBearerAuths ==
    {Bearer(t) : t \in ForgedTokens}
        \cup {AuthWith(BearerPrefix \o <<" ">>, t) : t \in issued}
AnyAuths == NoBearerAuths \cup EmptyBearerAuths \cup BadBearerAuths \cup BearerAuths

SpoofedHeaders ==
    [x \in {"X-User-Id", "X-User-BadgeId", "X-User-IsAdmin"} |->
        IF x = "X-User-Id" THEN "cu2" ELSE IF x = "X-User-BadgeId" THEN "OFFICER123"
        ELSE "true"]
ClientHeaders == {NoHeaders, SpoofedHeaders, [x \in {"X-User-IsAdmin"} |-> "true"]}

\* One request of each reading route for each of the given headers.
Reads(ids, auths, xhdrs) ==
    Requests("GET /api/incidents", {0}, {0}, auths, xhdrs, {NoBody})
        \cup Requests("GET /api/incidents/:id", ids, {0}, auths, xhdrs, {NoBody})
        \cup Requests("GET /api/incidents/:id/evidence", ids, {0}, auths, xhdrs, {NoBody})

\* One request of each writing route for each of the given headers.
Writes(ids, evIds, auths, xhdrs) ==
    UNION {Requests("POST /api/incidents", {0}, {0}, {a}, xhdrs, {OwnPost(a)}) :
              a \in auths}
        \cup Requests("PATCH /api/incidents/:id", ids, {0}, auths, xhdrs, {ClosePatch})
        \cup Requests("DELETE /api/incidents/:id", ids, {0}, auths, xhdrs, {NoBody})
        \cup Requests("POST /api/incidents/:id/evidence", ids, {0}, auths, xhdrs,
                      {PhotoBody})
        \cup Requests("DELETE /api/incidents/:id/evidence/:evidenceId", ids, evIds,
                      auths, xhdrs, {NoBody})

\* Logged-in clients: every writing route and path, and the bodies above on
\* incident 1.
ApiRequests ==
    Writes(PathIncidentIds, PathEvidenceIds, BearerAuths, {NoHeaders})
        \cup UNION {Requests("POST /api/incidents", {0}, {0}, {a}, {NoHeaders},
                             PostBodiesOf(a)) : a \in BearerAuths}
        \cup Requests("PATCH /api/incidents/:id", {1}, {0}, BearerAuths, {NoHeaders},
                      PatchBodies)
        \cup Requests("POST /api/incidents/:id/evidence", {1}, {0}, BearerAuths,
                      {NoHeaders}, EvidenceBodies)

\* Every route under every kind of Authorization header, and under each set of
\* client-set X-User-* headers.
AllRoutes(auths, xhdrs) == Reads({1}, auths, xhdrs) \cup Writes({1}, {1}, auths, xhdrs)
GateProbes == AllRoutes(AnyAuths, ClientHeaders)

\* The requests the gate is driven with: every route without a header and
\* with an issued token, under plain and client-set X-User-* headers, and every
\* other kind of Authorization header on the DELETE route.
GateRequests ==
    AllRoutes({NoAuth} \cup BearerAuths, {NoHeaders, SpoofedHeaders})
        \cup Requests("DELETE /api/incidents/:id", {1}, {0}, AnyAuths, {NoHeaders},
                      {NoBody})

\* Logged-in clients on every writing route of incident 1.
PlainRequests == Writes({1}, {1}, BearerAuths, {NoHeaders})

(***************************************************************************)
(* Specifications.                                                         *)
(***************************************************************************)
Handle(c, r) ==
    \/ ReadGET(r)
    \/ IncidentListGET(c, r, NoData)
    \/ IncidentPOST(r)
    \/ IncidentPATCH(c, r)
    \/ IncidentDELETE(c, r)
    \/ EvidencePOST(c, r)
    \/ EvidenceDELETE(c, r)

Complete(c) ==
    \/ IncidentPATCHUpdate(c)
    \/ IncidentDELETEDelete(c)
    \/ EvidencePOSTCreate(c)
    \/ EvidenceDELETEDelete(c)

LoginAs(U) == \E in \in LoginInputs(U) : Login(in[1], in[2])
DoLogout == \E t \in issued : Logout(t)
TickBy(D) == \E d \in D : Tick(d)
DoDbEdit == \E u \in UserIds, b \in BOOLEAN : DbSetAdmin(u, b)

\* The API used by logged-in clients over connection 1.
Next ==
    \/ LoginAs(UserIds)
    \/ \E r \in ApiRequests : Handle(1, r)
    \/ Complete(1)
Spec == Init /\ [][Next]_vars

\* The access gate under any headers.
NextGate ==
    \/ LoginAs({"cu3"})
    \/ TickBy({TokenLifetime})
    \/ \E r \in GateRequests : Handle(1, r)
    \/ IncidentListCount(1)
    \/ Complete(1)
SpecGate == Init /\ [][NextGate]_vars

\* Tokens over time: logins, logouts and the clock.
NextTime ==
    \/ LoginAs({"cu2"})
    \/ DoLogout
    \/ TickBy({1, TokenLifetime - 1})
    \/ \E r \in PlainRequests : Handle(1, r)
    \/ Complete(1)
SpecTime == Init /\ [][NextTime]_vars

\* The API while admin flags are edited in the database.
NextDb ==
    \/ LoginAs(UserIds)
    \/ DoDbEdit
    \/ \E r \in PlainRequests : Handle(1, r)
    \/ Complete(1)
SpecDb == Init /\ [][NextDb]_vars

\* Signup bodies: new and registered badge ids, padded with blanks or not, and
\* bodies the schema rejects.
GoodPassword == <<"s", "e", "c", "r", "e", "t">>
UserBody(badgeText, password) ==
    Json([badgeId |-> badgeText, name |-> <<"n">>, password |-> password])
UserBodies ==
    {UserBody(b, GoodPassword) :
        b \in {<<"NEW1">>, <<" ", "NEW1">>, <<"NEW2">>, <<"OFFICER123", " ">>,
               <<" ">>}}
        \cup {UserBody(<<"NEW1">>, <<"s", "h", "o", "r", "t">>), BadJson,
              Json([badgeId |-> <<"NEW1">>, password |-> GoodPassword])}
UserRequests ==
    Requests("POST /api/users", {0}, {0}, {NoAuth}, {NoHeaders}, UserBodies)

\* Signup on two connections.
NextUsers ==
    \/ \E c \in Connections : \E r \in UserRequests : UserPOST(c, r)
    \/ \E c \in Connections : UserPOSTCreate(c)
SpecUsers == Init /\ [][NextUsers]_vars

\* Two incidents and their evidence: creations, updates and deletions.
CascadeRequests ==
    Writes({1, 2}, {1, 2}, BearerAuths, {NoHeaders})
        \cup Reads({1, 2}, BearerAuths, {NoHeaders})
InitCascade == InitWith(LargerStore)
NextCascade ==
    \/ LoginAs({"cu2"})
    \/ \E r \in CascadeRequests : Handle(1, r)
    \/ IncidentListCount(1)
    \/ Complete(1)
SpecCascade == InitCascade /\ [][NextCascade]_vars

\* A second incident, which differs from Theft in every field the list sorts
\* by or searches in.
Arson ==
    [occurredAt |-> IsoDatetime("d2"), location |-> <<"a", "Q">>,
     crimeType |-> <<"a", "r">>, description |-> <<"y", " ">>, status |-> "Closed"]
ListBodies(auth) ==
    {Json(Merge([reportedById |-> auth.tok.userId], d)) : d \in {Theft, Arson}}
ListWrites(ids) ==
    UNION {Requests("POST /api/incidents", {0}, {0}, {a}, {NoHeaders}, ListBodies(a)) :
              a \in BearerAuths}
        \cup Requests("DELETE /api/incidents/:id", ids, {0}, BearerAuths, {NoHeaders},
                      {NoBody})
ListRequests ==
    Requests("GET /api/incidents", {0}, {0}, BearerAuths, {NoHeaders}, {NoBody})

\* Query strings.  page, limit and searchQuery are texts.
PageTexts ==
    {Empty, <<"0">>, <<"1">>, <<"2">>, <<"-", "1">>, <<"5", "1">>, <<"a", "b", "c">>,
     <<"2", "x">>, <<" ", "3">>}
PagingQueries ==
    {NoData}
        \cup {[page |-> t] : t \in PageTexts}
        \cup {[limit |-> t] : t \in PageTexts}
        \cup {[page |-> t, limit |-> u] : t \in {<<"2">>, <<"3">>}, u \in {<<"1">>, <<"2">>}}
FilterQueries ==
    {[status |-> v] : v \in Statuses \cup {"", "open", "Bogus"}}
        \cup {[searchQuery |-> t] : t \in {<<"q">>, <<"Q", "A">>, <<" ">>, <<"c", "2">>,
                                          <<"y", " ">>, <<"z">>}}
        \cup {[status |-> "Closed", searchQuery |-> <<"q">>, limit |-> <<"1">>]}
\* dashboard/page.tsx: type SortField
SortField == allowedSortByFields \cup {"caseNumber"}
SortQueries ==
    {[sortBy |-> f, sortOrder |-> o] : f \in SortField, o \in SortOrders}
        \cup {[sortBy |-> "status"], [sortOrder |-> "asc"],
              [sortBy |-> "id", sortOrder |-> "asc"],
              [sortBy |-> "status", sortOrder |-> "ASC"],
              [sortBy |-> "", sortOrder |-> ""]}
ListProbes == PagingQueries \cup FilterQueries \cup SortQueries
\* The queries lists are driven with: of each kind the ones that differ in
\* what the store is asked.
ListQueries ==
    {NoData, [page |-> <<"2">>], [page |-> <<"a", "b", "c">>], [limit |-> <<"0">>],
     [limit |-> <<"1">>], [limit |-> <<"5", "1">>], [limit |-> <<"a", "b", "c">>],
     [page |-> <<"2">>, limit |-> <<"1">>], [page |-> <<"3">>, limit |-> <<"2">>],
     [status |-> "Closed"], [status |-> "Open"], [status |-> "Bogus"], [status |-> ""],
     [searchQuery |-> <<"q">>], [searchQuery |-> <<" ">>], [searchQuery |-> <<"c", "2">>],
     [status |-> "Closed", searchQuery |-> <<"q">>, limit |-> <<"1">>],
     [sortBy |-> "id", sortOrder |-> "asc"], [sortBy |-> "status", sortOrder |-> "ASC"]}
        \cup {[sortBy |-> f, sortOrder |-> o] : f \in SortField, o \in SortOrders}

\* Lists of a store of up to three incidents, over connection 1.
InitList == InitWith(ListedStore)
NextList ==
    \/ LoginAs({"cu2"})
    \/ \E r \in ListWrites({1}) : Handle(1, r)
    \/ \E r \in ListRequests : \E query \in ListQueries : IncidentListGET(1, r, query)
    \/ IncidentListCount(1)
    \/ IncidentDELETEDelete(1)
SpecList == InitList /\ [][NextList]_vars

\* Lists on connection 1 while connection 2 creates and deletes incidents.
OverlapQueries == {NoData, [status |-> "Open"], [limit |-> <<"1">>]}
NextListOverlap ==
    \/ LoginAs({"cu2"})
    \/ \E r \in ListWrites(1..MoreIncidents) : Handle(2, r)
    \/ \E r \in ListRequests : \E query \in OverlapQueries : IncidentListGET(1, r, query)
    \/ IncidentListCount(1)
    \/ IncidentDELETEDelete(2)
SpecListOverlap == InitCascade /\ [][NextListOverlap]_vars

\* PATCH bodies with none of the mutable fields, and bodies with some.
FieldlessBodies ==
    {Json(NoData), Json([reportedById |-> "cu3"]), Json([id |-> 2]),
     Json([caseNumber |-> <<"c", "9">>]),
     Json([reportedById |-> "cu1", id |-> 2, caseNumber |-> <<"c", "9">>])}
FieldBodies ==
    {ClosePatch, Json([location |-> <<" ", "y">>]), Json([occurredAt |-> IsoDate("d2")]),
     Json([crimeType |-> <<"a", "r">>, reportedById |-> "cu3"])}
FieldlessPatches ==
    Requests("PATCH /api/incidents/:id", PathIncidentIds, {0}, BearerAuths, {NoHeaders},
             FieldlessBodies)
PatchRequests ==
    FieldlessPatches
        \cup Requests("PATCH /api/incidents/:id", PathIncidentIds, {0}, BearerAuths,
                      {NoHeaders}, FieldBodies)
        \cup UNION {Requests("POST /api/incidents", {0}, {0}, {a}, {NoHeaders},
                             {OwnPost(a)}) : a \in BearerAuths}

\* Updates of an incident by its reporter, by an admin and by another officer.
NextPatch ==
    \/ LoginAs(UserIds)
    \/ \E r \in PatchRequests : Handle(1, r)
    \/ IncidentPATCHUpdate(1)
SpecPatch == Init /\ [][NextPatch]_vars

\* Bodies the schemas refuse, one family for each mutating endpoint.
InvalidPostBodies(auth) ==
    {BadJson, Json(NoData), Json(Theft),
     Json(Merge([reportedById |-> auth.tok.userId, location |-> Blank], Theft))}
        \cup {Json(Merge([reportedById |-> auth.tok.userId, occurredAt |-> t], Theft)) :
                t \in {IsoDate("d1"), <<"x">>, Empty}}
InvalidPatchBodies ==
    {BadJson, Json(NoData), Json([status |-> "Bogus"]), Json([occurredAt |-> <<"x">>]),
     Json([location |-> Blank])}
InvalidEvidenceBodies ==
    {BadJson, Json(NoData),
     Json([description |-> Blank, type |-> "Photo", storageReference |-> <<"s">>]),
     Json([description |-> <<"d">>, type |-> "Bogus", storageReference |-> <<"s">>])}
InvalidUserBodies ==
    {BadJson, Json(NoData), UserBody(<<"NEW1">>, <<"s", "h", "o", "r", "t">>),
     UserBody(Blank, GoodPassword), UserBody(<<"OFFICER123">>, Empty)}
InvalidLogins == {<<"", <<"pw", "cu2">> >>, <<"OFFICER123", Empty>>, <<"NOBODY", Empty>>}

InvalidPosts ==
    UNION {Requests("POST /api/incidents", {0}, {0}, {a}, {NoHeaders},
                    InvalidPostBodies(a)) : a \in BearerAuths}
InvalidPatches ==
    Requests("PATCH /api/incidents/:id", PathIncidentIds, {0}, BearerAuths, {NoHeaders},
             InvalidPatchBodies)
InvalidEvidencePosts ==
    Requests("POST /api/incidents/:id/evidence", PathIncidentIds, {0}, BearerAuths,
             {NoHeaders}, InvalidEvidenceBodies)
InvalidSignups ==
    Requests("POST /api/users", {0}, {0}, {NoAuth}, {NoHeaders}, InvalidUserBodies)
OwnPosts ==
    UNION {Requests("POST /api/incidents", {0}, {0}, {a}, {NoHeaders}, {OwnPost(a)}) :
              a \in BearerAuths}

\* Invalid bodies on every mutating endpoint, against a store with or without
\* the addressed incident.
NextInvalid ==
    \/ LoginAs(UserIds)
    \/ \E in \in InvalidLogins : Login(in[1], in[2])
    \/ \E r \in InvalidPosts \cup InvalidPatches \cup InvalidEvidencePosts \cup OwnPosts :
          Handle(1, r)
    \/ \E r \in InvalidSignups : UserPOST(1, r)
SpecInvalid == Init /\ [][NextInvalid]_vars

\* Evidence bodies that name an adder, an incident and an id of their own.
NamingBodies ==
    {PhotoBody,
     Json(Merge([addedById |-> "cu1", incidentId |-> 2, id |-> 9], PhotoBody.obj)),
     Json(Merge([addedById |-> "cu3"], PhotoBody.obj))}
EvidencePosts ==
    Requests("POST /api/incidents/:id/evidence", PathIncidentIds, {0}, BearerAuths,
             {NoHeaders, SpoofedHeaders}, NamingBodies)

\* Evidence added to an incident that exists and to one that does not.
NextEvidence ==
    \/ LoginAs({"cu2", "cu3"})
    \/ \E r \in OwnPosts \cup EvidencePosts : Handle(1, r)
    \/ EvidencePOSTCreate(1)
SpecEvidence == Init /\ [][NextEvidence]_vars

\* Every write of incident 1 and its evidence, and PATCH bodies that name the
\* fields no update may change.
NextKeep ==
    \/ LoginAs({"cu1", "cu2"})
    \/ \E r \in PatchRequests \cup PlainRequests : Handle(1, r)
    \/ Complete(1)
SpecKeep == Init /\ [][NextKeep]_vars

\* Requests that overlap on two connections.
NextOverlap ==
    \/ LoginAs(UserIds)
    \/ \E c \in Connections : \E r \in PlainRequests : Handle(c, r)
    \/ \E c \in Connections : Complete(c)
SpecOverlap == Init /\ [][NextOverlap]_vars

(***************************************************************************)
(* Properties.                                                             *)
(***************************************************************************)
IncidentGuardedRoutes == {"PATCH /api/incidents/:id", "DELETE /api/incidents/:id"}
EvidenceDeleteRoute == "DELETE /api/incidents/:id/evidence/:evidenceId"
DeleteRoutes == {"DELETE /api/incidents/:id", EvidenceDeleteRoute}

\* The rule of the specification: allowed = actor.isAdmin || ownerId == actor.userId.
Allowed(actor, ownerId) == actor.isAdmin \/ ownerId = actor.userId

\* The request addresses a stored incident on a guarded incident route.
OnIncident(r) == r.kind \in IncidentGuardedRoutes /\ r.id \in DOMAIN incidents
\* The request is a DELETE of a stored evidence item.
OnEvidence(r) == r.kind = EvidenceDeleteRoute /\ r.evId \in DOMAIN evidence

\* C1: every stored incident whose status is not Closed has closingReason = null.
C1_ReasonNullUnlessClosed ==
    \A i \in DOMAIN incidents :
        incidents[i].status # "Closed" => incidents[i].closingReason = NULL

\* C2 as stated: a PATCH or DELETE of a stored incident, or a DELETE of a stored
\* evidence item, by a non-admin who is not the owner is answered 403.
C2_NonOwnerGets403 ==
    \A r \in ApiRequests :
        /\ (OnIncident(r) /\ ~Allowed(r.auth.tok, incidents[r.id].reportedById))
              => Outcome(r).status = 403
        /\ (OnEvidence(r) /\ ~Allowed(r.auth.tok, evidence[r.evId].addedById))
              => Outcome(r).status = 403

\* C2 (amended): a PATCH or DELETE of a stored incident by a non-admin who is
\* not its reporter is answered 403; a DELETE of a stored evidence item by a
\* non-admin who did not add it is answered 403 when the path names the
\* evidence's incident and 400 when it names another; the handler awaits no
\* write, and the step that answers 403 or 400 leaves the store as it was.
C2_NonOwnerRejectedStoreKept ==
    /\ [](\A r \in ApiRequests :
            /\ (OnIncident(r) /\ ~Allowed(r.auth.tok, incidents[r.id].reportedById))
                  => (Outcome(r).op = "done" /\ Outcome(r).status = 403)
            /\ (OnEvidence(r) /\ ~Allowed(r.auth.tok, evidence[r.evId].addedById))
                  => /\ Outcome(r).op = "done"
                     /\ Outcome(r).status =
                            IF evidence[r.evId].incidentId = r.id THEN 403 ELSE 400)
    /\ [][(last'.ran /\ last'.status \in {400, 403}) => store' = store]_vars

\* A non-admin was refused the DELETE of evidence another user added.
C2_Witness ==
    /\ last.sent.kind = EvidenceDeleteRoute
    /\ last.status = 403
    /\ ~last.sent.tokAdmin
    /\ last.sent.evId \in DOMAIN evidence
    /\ evidence[last.sent.evId].addedById # last.sent.tokUid
    /\ evidence[last.sent.evId].incidentId = last.sent.id

\* C3: after a successful POST /api/incidents the created incident's
\* reportedById is the userId of the token that made the request.
C3_CreatorIsOwner ==
    (last.sent.kind = "POST /api/incidents" /\ last.status = 201)
        => incidents[last.newId].reportedById = last.sent.tokUid

\* C4: the three checks are one function of (isAdmin, owner, user), and a
\* PATCH or DELETE of a stored incident, or a DELETE of a stored evidence item
\* under its own incident's path, passes the check exactly when the token's
\* isAdmin is true or the resource's owner is the token's user.
C4_OneRule ==
    /\ \A a \in BOOLEAN, o \in UserIds, u \in UserIds :
          /\ IncidentPatchForbidden(a, o, u) = ~Allowed([isAdmin |-> a, userId |-> u], o)
          /\ IncidentDeleteForbidden(a, o, u) = IncidentPatchForbidden(a, o, u)
          /\ EvidenceDeleteForbidden(a, o, u) = IncidentPatchForbidden(a, o, u)
    /\ \A r \in ApiRequests :
          /\ OnIncident(r)
                => (Outcome(r).status # 403
                      <=> Allowed(r.auth.tok, incidents[r.id].reportedById))
          /\ (OnEvidence(r) /\ evidence[r.evId].incidentId = r.id)
                => (Outcome(r).status # 403
                      <=> Allowed(r.auth.tok, evidence[r.evId].addedById))
          /\ (r.kind = "DELETE /api/incidents/:id" /\ OnIncident(r)
                /\ Allowed(r.auth.tok, incidents[r.id].reportedById))
                => Outcome(r).op = "delete"
          /\ (OnEvidence(r) /\ evidence[r.evId].incidentId = r.id
                /\ Allowed(r.auth.tok, evidence[r.evId].addedById))
                => Outcome(r).op = "evdelete"

\* An admin passed the check on evidence another user added.
C4_Witness ==
    /\ pending[1].op = "evdelete"
    /\ pending[1].sent.tokAdmin
    /\ pending[1].sent.evId \in DOMAIN evidence
    /\ evidence[pending[1].sent.evId].addedById # pending[1].sent.tokUid

\* The header's text starts with 'Bearer '.
HasBearerPrefix(auth) ==
    /\ auth.present
    /\ Len(auth.text) >= Len(BearerPrefix)
    /\ \A i \in 1..Len(BearerPrefix) : auth.text[i] = BearerPrefix[i]
\* The header is 'Bearer ' followed by something.
CarriesBearerToken(auth) ==
    HasBearerPrefix(auth) /\ (Len(auth.text) > Len(BearerPrefix) \/ auth.tok # NoTok)

FailsVerification(auth) ==
    \/ auth.text # BearerPrefix
    \/ auth.tok.fmt # "jws"
    \/ auth.tok.alg # "HS256"
    \/ auth.tok.key # secret
    \/ auth.tok.iat + TokenLifetime <= clock

VerifyFailureMessages ==
    {"Token has expired.", "Invalid token (verification failed).",
     "Token processing failed.", "Invalid or expired token."}

\* C6: with a bearer token present, and a secret configured, a token that
\* fails verification is answered 401 with one of the failure messages and no
\* handler runs; with no secret configured the answer is 500 whatever the token.
C6_FailureIs401NoSecretIs500 ==
    \A r \in GateProbes :
        CarriesBearerToken(r.auth)
            => IF secret = NoSecret
               THEN /\ ~Outcome(r).ran
                    /\ Outcome(r).op = "done"
                    /\ Outcome(r).status = 500
               ELSE FailsVerification(r.auth)
                        => /\ ~Outcome(r).ran
                           /\ Outcome(r).op = "done"
                           /\ Outcome(r).status = 401
                           /\ Outcome(r).msg \in VerifyFailureMessages

\* An issued token was answered 401 after it expired.
C6_Witness ==
    /\ last.sent.tokUid = "cu3"
    /\ ~last.ran
    /\ last.status = 401
    /\ last.msg = "Token has expired."

\* C7: for a request the gate lets through, the X-User-Id, X-User-BadgeId and
\* X-User-IsAdmin a handler reads are the claims of its token, and the request
\* with any other client-set X-User-* headers has the same outcome: the same
\* response, or the same awaited write by the same identity.
C7_IdentityFromToken ==
    \A r \in GateProbes :
        middleware(r).next
            => /\ HeaderGet(middleware(r).headers, "X-User-Id") = r.auth.tok.userId
               /\ HeaderGet(middleware(r).headers, "X-User-BadgeId") = r.auth.tok.badgeId
               /\ HeaderGet(middleware(r).headers, "X-User-IsAdmin")
                      = BoolString(r.auth.tok.isAdmin)
               /\ \A x \in ClientHeaders : Outcome([r EXCEPT !.xhdr = x]) = Outcome(r)

\* Evidence posted under headers that name cu2, an admin, was added by the
\* token's user cu3.
C7_Witness ==
    /\ last.sent.kind = "POST /api/incidents/:id/evidence"
    /\ last.sent.xhdr = SpoofedHeaders
    /\ last.status = 201
    /\ last.uid = "cu3"
    /\ ~last.admin
    /\ evidence[last.newId].addedById = "cu3"

\* C8: a token issued at time t passes the gate at every time before
\* t + TokenLifetime and is answered 401 from then on, whether or not a
\* client logout has discarded it.
C8_ValidForOneHour ==
    \A t \in issued :
        \A r \in Writes({1}, {1}, {Bearer(t)}, {NoHeaders}) :
            IF clock < t.iat + TokenLifetime
            THEN middleware(r).next /\ Outcome(r).ran
            ELSE /\ ~middleware(r).next
                 /\ ~Outcome(r).ran
                 /\ Outcome(r).status = 401

\* One second before its expiry a token that logout discarded created an
\* incident.
C8_Witness ==
    /\ issued # {}
    /\ issued = discarded
    /\ \A t \in issued : t.iat = 0
    /\ clock = TokenLifetime - 1
    /\ last.sent.kind = "POST /api/incidents"
    /\ last.status = 201

\* C9: the check on a stored resource follows the token's claims whatever the
\* isAdmin column of the user's row now holds, and a step that edits that
\* column changes the outcome of no request.
C9_ClaimsNotUserRecord ==
    /\ [](\A r \in PlainRequests :
            /\ OnIncident(r)
                  => (Outcome(r).status = 403
                        <=> ~Allowed(r.auth.tok, incidents[r.id].reportedById))
            /\ (OnEvidence(r) /\ evidence[r.evId].incidentId = r.id)
                  => (Outcome(r).status = 403
                        <=> ~Allowed(r.auth.tok, evidence[r.evId].addedById)))
    /\ [][users' # users => \A r \in PlainRequests : Outcome(r)' = Outcome(r)]_vars

\* cu3, made an admin in the database after login, was still refused.
C9_Witness ==
    /\ users["cu3"].isAdmin
    /\ last.sent.tokUid = "cu3"
    /\ ~last.sent.tokAdmin
    /\ last.sent.kind \in IncidentGuardedRoutes
    /\ last.status = 403

\* C10: no incident id and no evidence id is deleted with 204 twice; once one
\* was, every DELETE of it is answered 404; and a DELETE that passed its
\* guards is answered 204 or 404, never 500.
C10_DeletedAtMostOnce ==
    /\ \A k \in ResourceKeys : deleted204[k] <= 1
    /\ \A r \in PlainRequests :
          /\ (r.kind = "DELETE /api/incidents/:id" /\ r.id \in 1..MaxIncidents
                /\ deleted204[<<"incident", r.id>>] = 1)
                => (Outcome(r).op = "done" /\ Outcome(r).status = 404)
          /\ (r.kind = EvidenceDeleteRoute /\ r.evId \in 1..MaxEvidence
                /\ deleted204[<<"evidence", r.evId>>] = 1)
                => (Outcome(r).op = "done" /\ Outcome(r).status = 404)
    /\ (last.sent.kind \in DeleteRoutes /\ last.ran)
          => last.status \in {204, 400, 403, 404}

\* Of two overlapping DELETEs of incident 1 one was answered 204 and the
\* other, its delete finding no row, 404.
C10_Witness ==
    /\ deleted204[<<"incident", 1>>] = 1
    /\ last.sent.kind = "DELETE /api/incidents/:id"
    /\ last.sent.id = 1
    /\ last.status = 404
    /\ last.msg = "Incident not found."

EvidenceSubpathRoutes ==
    {"GET /api/incidents/:id/evidence", "POST /api/incidents/:id/evidence"}

\* C11: once a DELETE of an incident was answered 204 no evidence row names
\* that incident and every GET or POST on its evidence subpath is answered
\* 404; the step that deletes it removes no evidence of another incident and
\* changes none.
C11_CascadeAndSubpath404 ==
    /\ [](\A i \in 1..MoreIncidents :
            deleted204[<<"incident", i>>] >= 1
                => /\ \A e \in DOMAIN evidence : evidence[e].incidentId # i
                   /\ \A r \in CascadeRequests :
                         (r.kind \in EvidenceSubpathRoutes /\ r.id = i)
                             => (Outcome(r).op = "done" /\ Outcome(r).status = 404))
    /\ [][(last'.sent.kind = "DELETE /api/incidents/:id" /\ last'.status = 204)
            => /\ DOMAIN evidence' \subseteq DOMAIN evidence
               /\ \A e \in DOMAIN evidence :
                     IF evidence[e].incidentId = last'.sent.id
                     THEN e \notin DOMAIN evidence'
                     ELSE e \in DOMAIN evidence' /\ evidence'[e] = evidence[e]]_vars

\* Incident 1 was deleted with its evidence, the evidence of incident 2 is
\* still stored, and a GET of incident 1's evidence was answered 404.
C11_Witness ==
    /\ deleted204[<<"incident", 1>>] = 1
    /\ deleted204[<<"incident", 2>>] = 0
    /\ \A k \in 1..MoreEvidence : deleted204[<<"evidence", k>>] = 0
    /\ nextEvidenceId = 3
    /\ DOMAIN evidence # {}
    /\ \A e \in DOMAIN evidence : evidence[e].incidentId = 2
    /\ Cardinality(DOMAIN evidence) = 1
    /\ last.sent.kind = "GET /api/incidents/:id/evidence"
    /\ last.sent.id = 1
    /\ last.status = 404

\* The signup body passes the schema and names this badge id.
SignsUp(r, badgeId) ==
    /\ r.body.syntax
    /\ CreateUserSchemaOk(r.body.obj)
    /\ BadgeOf(Trim(r.body.obj["badgeId"])) = badgeId

\* C12: no two users have the same badgeId; a signup whose badgeId is
\* registered is answered 409; a signup is answered 201, 400 or 409, never
\* 500; the step that answers 201 adds one user and every other step of a
\* signup leaves the users as they were.
C12_BadgeIdUnique ==
    /\ [](/\ \A u, v \in DOMAIN users :
                users[u].badgeId = users[v].badgeId => u = v
          /\ \A r \in UserRequests : \A u \in DOMAIN users :
                SignsUp(r, users[u].badgeId)
                    => (UserPostOutcome(r).op = "done" /\ UserPostOutcome(r).status = 409)
          /\ last.sent.kind = "POST /api/users" => last.status \in {201, 400, 409})
    /\ [][last'.sent.kind = "POST /api/users"
            => IF last'.status = 201
               THEN /\ DOMAIN users' = DOMAIN users \cup {last'.newId}
                    /\ last'.newId \notin DOMAIN users
                    /\ \A u \in DOMAIN users : users'[u] = users[u]
               ELSE users' = users]_vars

\* Two signups with badge id NEW1 overlapped: one created the user and the
\* other, its create refused by the unique index, was answered 409.
C12_Witness ==
    /\ Cardinality(UsersWithBadge("NEW1")) = 1
    /\ last.sent.kind = "POST /api/users"
    /\ last.status = 409
    /\ last.msg = "Unique constraint violation."

\* Logins tried against the users as they are: every user's badge id with its
\* password, with a wrong one and with none, and a badge id nobody has.
LoginProbes ==
    LoginInputs(UserIds)
        \cup {<<users[u].badgeId, <<"wrong">> >> : u \in UserIds}
        \cup {<<"NOBODY", <<"wrong">> >>}
\* The badge id is registered and the password is that user's.
GoodCredentials(in) ==
    \E u \in DOMAIN users :
        users[u].badgeId = in[1] /\ Compare(in[2], users[u].password)
\* The answer is 200 with a token whose claims are the stored user's.
TokenOfStoredUser(in) ==
    /\ LoginOutcome(in[1], in[2]).status = 200
    /\ \E u \in DOMAIN users :
          LET t == LoginOutcome(in[1], in[2]).token IN
          /\ users[u].badgeId = in[1]
          /\ t.fmt = "jws"
          /\ t.userId = u
          /\ t.badgeId = users[u].badgeId
          /\ t.isAdmin = users[u].isAdmin
\* The answer is 401 and carries no token.
Refused401(in) ==
    /\ LoginOutcome(in[1], in[2]).status = 401
    /\ LoginOutcome(in[1], in[2]).token = NoTok

\* C13 as the specification states it: a registered badge id with its password
\* is answered 200 with a token of the stored user's claims, whatever the
\* server's configuration.
C13_GoodCredentialsGet200 ==
    \A in \in LoginProbes :
        (in[1] # "" /\ in[2] # <<>> /\ GoodCredentials(in)) => TokenOfStoredUser(in)

\* C13: on a server with a signing secret a login with a registered badge id and
\* its password is answered 200 with a token whose userId, badgeId and isAdmin
\* are the stored user's at that moment, and on a server without one it is
\* answered 500 with no token; an unregistered badge id or a wrong password is
\* answered 401 with no token; a login step adds a token only when it answers
\* 200.
C13_LoginTokenFromStoredUser ==
    /\ [](\A in \in LoginProbes :
            (in[1] # "" /\ in[2] # <<>>)
                => IF GoodCredentials(in)
                   THEN IF secret # NoSecret
                        THEN TokenOfStoredUser(in)
                        ELSE /\ LoginOutcome(in[1], in[2]).status = 500
                             /\ LoginOutcome(in[1], in[2]).token = NoTok
                   ELSE Refused401(in))
    /\ [][last'.sent.kind = "POST /api/auth/login"
            => /\ last'.status # 200 => issued' = issued
               /\ last'.status = 200
                    => \E t \in issued' :
                          /\ t.iat = clock
                          /\ t.userId \in DOMAIN users
                          /\ t.badgeId = users[t.userId].badgeId
                          /\ t.isAdmin = users[t.userId].isAdmin]_vars

\* cu3 was made an admin in the database and then logged in: the token says
\* admin, which the seeded record did not.
C13_Witness ==
    /\ secret # NoSecret
    /\ users["cu3"].isAdmin
    /\ ~SeedUsers["cu3"].isAdmin
    /\ last.sent.kind = "POST /api/auth/login"
    /\ last.status = 200
    /\ \E t \in issued : t.userId = "cu3" /\ t.isAdmin /\ t.iat = clock

\* The latest step answered a list with a page.
ListAnswered == last.sent.kind = "GET /api/incidents" /\ last.status = 200
\* A query without one of its parameters.
Drop(query, name) == [k \in DOMAIN query \ {name} |-> query[k]]
\* C14: of every list answered with a page, totalCount is the number of stored
\* incidents that match the filter, totalPages is the least number of pages of
\* limit rows that hold totalCount rows, limit is between 1 and 50 and the page
\* has limit rows at most; a list of a logged-in client that is not answered
\* with a page is answered 500.
C14_PaginationAgrees ==
    last.sent.kind = "GET /api/incidents"
        => LET plan == ListPlan(last.list.query)
               l == last.list
               n == Cardinality(Matching(plan))
           IN
           IF last.status = 200
           THEN /\ l.totalCount = n
                /\ l.limit \in 1..MaxLimit
                /\ l.totalPages * l.limit >= n
                /\ l.totalPages >= 0
                /\ l.totalPages > 0 => (l.totalPages - 1) * l.limit < n
                /\ Len(l.incidents) <= l.limit
           ELSE last.status = 500

\* Three incidents listed with page=2 and limit=1: three pages, one row.
C14_Witness ==
    /\ ListAnswered
    /\ last.list.query = [page |-> <<"2">>, limit |-> <<"1">>]
    /\ last.list.totalCount = 3
    /\ last.list.totalPages = 3
    /\ Len(last.list.incidents) = 1

\* C15: whatever page and limit are, the effective page is an integer of at
\* least 1, the effective limit an integer between 1 and 50, and the skip an
\* integer that is not negative.
C15_PagingInRange ==
    \A query \in PagingQueries :
        LET plan == ListPlan(query) IN
        /\ ~plan.validatedPage.nan /\ plan.validatedPage.val >= 1
        /\ ~plan.validatedLimit.nan /\ plan.validatedLimit.val \in 1..MaxLimit
        /\ ~plan.skip.nan /\ plan.skip.val >= 0
        /\ (last.sent.kind = "GET /api/incidents" /\ last.list.query = query)
              => /\ last.status = 200
                 /\ last.list.currentPage = plan.validatedPage.val
                 /\ last.list.limit = plan.validatedLimit.val

\* C16: a list whose sortBy is one of reportedAt, occurredAt, status,
\* crimeType, location and caseNumber and whose sortOrder is asc or desc is
\* ordered by that field in that direction, and a list with any other sortBy or
\* sortOrder by reportedAt, the latest first.
C16_SortsByEachSortField ==
    /\ \A query \in SortQueries :
          LET sortBy == StringOr(query, "sortBy", "reportedAt")
              sortOrder == StringOr(query, "sortOrder", "desc")
          IN
          ListPlan(query).orderBy
              = IF sortBy \in SortField /\ sortOrder \in SortOrders
                THEN [field |-> sortBy, order |-> sortOrder]
                ELSE [field |-> "reportedAt", order |-> "desc"]
    /\ (ListAnswered /\ last.list.query \in SortQueries)
          => LET sortBy == StringOr(last.list.query, "sortBy", "reportedAt")
                 sortOrder == StringOr(last.list.query, "sortOrder", "desc")
             IN
             InOrder(last.list.incidents,
                     IF sortBy \in SortField /\ sortOrder \in SortOrders
                     THEN [field |-> sortBy, order |-> sortOrder]
                     ELSE [field |-> "reportedAt", order |-> "desc"])

\* C17: a list whose status parameter is one of the three statuses returns and
\* counts only incidents of that status, all of them that match the rest of the
\* query; with any other status parameter the list is what it is without one.
C17_StatusFilterOrIgnored ==
    /\ \A query \in ListProbes :
          IF "status" \in DOMAIN query /\ query["status"] \in Statuses
          THEN Matching(ListPlan(query))
                  = {id \in Matching(ListPlan(Drop(query, "status"))) :
                        incidents[id].status = query["status"]}
          ELSE ListPlan(query) = ListPlan(Drop(query, "status"))
    /\ (ListAnswered /\ "status" \in DOMAIN last.list.query)
          => LET query == last.list.query
                 rest == Matching(ListPlan(Drop(query, "status")))
             IN
             IF query["status"] \in Statuses
             THEN /\ \A i \in 1..Len(last.list.incidents) :
                        last.list.incidents[i].status = query["status"]
                  /\ last.list.totalCount
                        = Cardinality({id \in rest :
                                         incidents[id].status = query["status"]})
             ELSE last.list.totalCount = Cardinality(rest)

\* Of three incidents one is Closed: status=Closed lists and counts that one.
C17_Witness ==
    /\ ListAnswered
    /\ last.list.query = [status |-> "Closed"]
    /\ Cardinality(DOMAIN incidents) = 3
    /\ last.list.totalCount = 1
    /\ Len(last.list.incidents) = 1
    /\ last.list.incidents[1].status = "Closed"

\* C18: the totalCount of a list is the number of incidents that matched in the
\* store state its page was read from.
C18_PageAndCountOfOneState ==
    ListAnswered => last.list.totalCount = Cardinality(last.list.found)

\* C19: a PATCH of an existing incident by its reporter or an admin whose body
\* has none of the mutable fields is answered 400, and the step that answers a
\* PATCH with 400 leaves every incident as it was.
C19_FieldlessPatchIs400 ==
    /\ [](\A r \in FieldlessPatches :
            (r.id \in DOMAIN incidents
                /\ Allowed(r.auth.tok, incidents[r.id].reportedById))
                => (Outcome(r).op = "done" /\ Outcome(r).status = 400))
    /\ [][(last'.sent.kind = "PATCH /api/incidents/:id" /\ last'.status = 400)
            => incidents' = incidents]_vars

\* The reporter of incident 1 sent a PATCH the schema refused; the incident is
\* as it was created.
C19_Witness ==
    /\ 1 \in DOMAIN incidents
    /\ last.sent.kind = "PATCH /api/incidents/:id"
    /\ last.sent.id = 1
    /\ last.sent.tokUid = incidents[1].reportedById
    /\ ~last.sent.tokAdmin
    /\ last.status = 400
    /\ last.msg = "Invalid input."
    /\ incidents[1].closingReason = NULL
    /\ incidents[1].location = Theft.location

\* The invalid bodies sent to the routes behind the gate.
InvalidApiRequests == InvalidPosts \cup InvalidPatches \cup InvalidEvidencePosts

\* C20 as the specification states it: an invalid body is answered 400 on every
\* mutating endpoint, whatever the store contains.
C20_InvalidBodyIs400 ==
    /\ \A r \in InvalidApiRequests : Outcome(r).op = "done" /\ Outcome(r).status = 400
    /\ \A r \in InvalidSignups :
          UserPostOutcome(r).op = "done" /\ UserPostOutcome(r).status = 400
    /\ \A in \in InvalidLogins : LoginOutcome(in[1], in[2]).status = 400

\* C20: an invalid body is answered 400 by POST /incidents, POST /users and
\* POST /auth/login whatever the store contains; by PATCH /incidents/:id it is
\* answered 404 when the incident does not exist, 403 when the actor is neither
\* its reporter nor an admin and 400 otherwise; by POST /incidents/:id/evidence
\* it is answered 404 when the incident does not exist and 400 otherwise.  The
\* step that gives any of these answers persists nothing.
C20_InvalidBodyRejected ==
    /\ [](/\ \A r \in InvalidPosts : Outcome(r).op = "done" /\ Outcome(r).status = 400
          /\ \A r \in InvalidPatches :
                /\ Outcome(r).op = "done"
                /\ Outcome(r).status
                      = IF r.id \notin DOMAIN incidents THEN 404
                        ELSE IF ~Allowed(r.auth.tok, incidents[r.id].reportedById)
                        THEN 403 ELSE 400
          /\ \A r \in InvalidEvidencePosts :
                /\ Outcome(r).op = "done"
                /\ Outcome(r).status = IF r.id \notin DOMAIN incidents THEN 404 ELSE 400
          /\ \A r \in InvalidSignups :
                UserPostOutcome(r).op = "done" /\ UserPostOutcome(r).status = 400
          /\ \A in \in InvalidLogins :
                /\ LoginOutcome(in[1], in[2]).status = 400
                /\ LoginOutcome(in[1], in[2]).token = NoTok)
    /\ [][last'.status \in {400, 403, 404}
            => (store' = store /\ users' = users /\ issued' = issued)]_vars

\* With incident 1 stored, a POST /api/incidents was answered 400 and created
\* no second incident.
C20_Witness ==
    /\ DOMAIN incidents = {1}
    /\ nextIncidentId = 2
    /\ last.sent.kind = "POST /api/incidents"
    /\ last.status = 400
    /\ last.msg = "Invalid input."

\* C21: a DELETE of evidence by a logged-in client is answered 404 when the
\* evidence is not stored, else 400 when its incidentId is not the incident id
\* of the path (whoever asks), else 403 when the actor is neither an admin nor
\* its adder, and else goes on to the delete; a step that answers 404, 400 or
\* 403 deletes nothing and the step that answers 204 deletes that evidence item
\* and no other.
C21_EvidenceDeleteGuardOrder ==
    /\ [](\A r \in ApiRequests :
            r.kind = EvidenceDeleteRoute
                => IF r.evId \notin DOMAIN evidence
                   THEN Outcome(r).op = "done" /\ Outcome(r).status = 404
                   ELSE IF evidence[r.evId].incidentId # r.id
                   THEN Outcome(r).op = "done" /\ Outcome(r).status = 400
                   ELSE IF ~Allowed(r.auth.tok, evidence[r.evId].addedById)
                   THEN Outcome(r).op = "done" /\ Outcome(r).status = 403
                   ELSE Outcome(r).op = "evdelete")
    /\ [][last'.sent.kind = EvidenceDeleteRoute
            => /\ last'.status \in {400, 403, 404} => store' = store
               /\ last'.status = 204
                    => /\ last'.sent.evId \in DOMAIN evidence
                       /\ evidence' = Without(evidence, {last'.sent.evId})
                       /\ incidents' = incidents]_vars

\* An admin asked to delete stored evidence under another incident's path and
\* was answered 400; the evidence is still stored.
C21_Witness ==
    /\ last.sent.kind = EvidenceDeleteRoute
    /\ last.status = 400
    /\ last.sent.tokAdmin
    /\ last.sent.evId \in DOMAIN evidence
    /\ evidence[last.sent.evId].incidentId # last.sent.id

\* C22: a POST of evidence to an incident that does not exist is answered 404
\* and creates nothing; the step that answers 201 adds one evidence item whose
\* incidentId is the incident id of the path and whose addedById is the userId
\* of the request's token, whatever the body and the client's headers name.
C22_EvidenceOfPathAndToken ==
    /\ [](\A r \in EvidencePosts :
            r.id \notin DOMAIN incidents
                => (Outcome(r).op = "done" /\ Outcome(r).status = 404))
    /\ [][last'.sent.kind = "POST /api/incidents/:id/evidence"
            => /\ last'.status = 404 => store' = store
               /\ last'.status = 201
                    => /\ last'.newId \notin DOMAIN evidence
                       /\ DOMAIN evidence' = DOMAIN evidence \cup {last'.newId}
                       /\ \A e \in DOMAIN evidence : evidence'[e] = evidence[e]
                       /\ evidence'[last'.newId].incidentId = last'.sent.id
                       /\ evidence'[last'.newId].addedById = last'.sent.tokUid
                       /\ last'.sent.id \in DOMAIN incidents]_vars

\* cu3 added evidence to cu2's incident with client-set X-User-* headers that
\* name cu2: the evidence is cu3's.
C22_Witness ==
    /\ last.sent.kind = "POST /api/incidents/:id/evidence"
    /\ last.status = 201
    /\ last.sent.tokUid = "cu3"
    /\ last.sent.xhdr = SpoofedHeaders
    /\ incidents[last.sent.id].reportedById = "cu2"
    /\ evidence[last.newId].addedById = "cu3"
    /\ evidence[last.newId].incidentId = last.sent.id

\* C23: no step changes the caseNumber or the reportedById of an incident that
\* stays stored, nor the incidentId or the addedById of an evidence item that
\* stays stored, and a row that appears has the id no row had before.
C23_KeysKept ==
    [][/\ \A i \in DOMAIN incidents \cap DOMAIN incidents' :
             /\ incidents'[i].caseNumber = incidents[i].caseNumber
             /\ incidents'[i].reportedById = incidents[i].reportedById
       /\ \A e \in DOMAIN evidence \cap DOMAIN evidence' :
             /\ evidence'[e].incidentId = evidence[e].incidentId
             /\ evidence'[e].addedById = evidence[e].addedById
       /\ \A i \in DOMAIN incidents' \ DOMAIN incidents : i = nextIncidentId
       /\ \A e \in DOMAIN evidence' \ DOMAIN evidence : e = nextEvidenceId]_vars

\* The admin's PATCH that names crimeType and another reporter was applied:
\* the crime type changed, the reporter and the case number did not.
C23_Witness ==
    /\ last.sent.kind = "PATCH /api/incidents/:id"
    /\ last.status = 200
    /\ last.sent.tokUid = "cu1"
    /\ incidents[1].crimeType = <<"a", "r">>
    /\ incidents[1].reportedById = "cu2"
    /\ incidents[1].caseNumber = CaseNumberOf(1)

\* The PATCH requests of logged-in clients whose body is an object with a
\* status.
StatusPatches ==
    {r \in ApiRequests :
        /\ r.kind = "PATCH /api/incidents/:id"
        /\ r.body.syntax
        /\ "status" \in DOMAIN r.body.obj}

\* C24: whatever the status of a stored incident, a PATCH by its reporter or an
\* admin that names one of the three statuses goes on to an update with that
\* status, and the update, when it finds the incident, stores it; a PATCH that
\* names another status is answered 400, and a step that answers a PATCH with
\* 400 changes no incident.
C24_AnyStatusToAny ==
    /\ [](\A r \in StatusPatches :
            (r.id \in DOMAIN incidents
                /\ Allowed(r.auth.tok, incidents[r.id].reportedById))
                => IF r.body.obj["status"] \in Statuses
                   THEN /\ Outcome(r).op = "update"
                        /\ Outcome(r).data["status"] = r.body.obj["status"]
                   ELSE Outcome(r).op = "done" /\ Outcome(r).status = 400)
    /\ [][last'.sent.kind = "PATCH /api/incidents/:id"
            => /\ last'.status = 400 => incidents' = incidents
               /\ (last'.status = 200 /\ "status" \in DOMAIN pending[1].data)
                    => incidents'[last'.sent.id].status = pending[1].data["status"]]_vars

\* cu2's incident, created Open or Closed, is Under Investigation after a
\* PATCH.
C24_Witness ==
    /\ last.sent.kind = "PATCH /api/incidents/:id"
    /\ last.status = 200
    /\ incidents[1].reportedById = "cu2"
    /\ incidents[1].status = "Under Investigation"

\* Creating an incident and fetching it by id: the reporter signs in, creates
\* incidents whose texts are padded or not and whose status is given or not,
\* fetches by every path id and closes what was created.
RoundTripBodies(auth) == ListBodies(auth) \cup {OwnPost(auth)}
CreateRequests ==
    UNION {Requests("POST /api/incidents", {0}, {0}, {a}, {NoHeaders},
                    RoundTripBodies(a)) : a \in BearerAuths}
RoundTripRequests ==
    CreateRequests
        \cup Requests("GET /api/incidents/:id", PathIncidentIds, {0}, BearerAuths,
                      {NoHeaders}, {NoBody})
        \cup Requests("PATCH /api/incidents/:id", PathIncidentIds, {0}, BearerAuths,
                      {NoHeaders}, {ClosePatch})
        \cup Requests("DELETE /api/incidents/:id", PathIncidentIds, {0}, BearerAuths,
                      {NoHeaders}, {NoBody})
InitRoundTrip == InitWith(LargerStore)
NextRoundTrip ==
    \/ LoginAs({"cu2"})
    \/ \E r \in RoundTripRequests : Handle(1, r)
    \/ IncidentPATCHUpdate(1)
    \/ IncidentDELETEDelete(1)
SpecRoundTrip == InitRoundTrip /\ [][NextRoundTrip]_vars

\* A step that updates a stored incident is the write of a PATCH.
ChangedOnlyByPatch ==
    \A i \in DOMAIN incidents \cap DOMAIN incidents' :
        incidents'[i] # incidents[i]
            => /\ pending[1].op = "update"
               /\ pending[1].sent.id = i
               /\ last'.status = 200
\* A fetch by id answered 200 carries the stored incident.
FetchedIsStored ==
    (last.sent.kind = "GET /api/incidents/:id" /\ last.status = 200)
        => /\ last.sent.id \in DOMAIN incidents
           /\ last.record = JsonOf(IncidentRow(last.sent.id))
\* The response of a create carries the incident it stored.
CreatedIsStored ==
    (last'.sent.kind = "POST /api/incidents" /\ last'.status = 201 /\ last' # last)
        => /\ last'.newId \in DOMAIN incidents' \ DOMAIN incidents
           /\ last'.record.id = last'.newId
           /\ \A k \in DOMAIN incidents'[last'.newId] \ {"occurredAt"} :
                 last'.record[k] = incidents'[last'.newId][k]
           /\ DateOf(last'.record.occurredAt) = incidents'[last'.newId].occurredAt

\* C25: the incident a create stores and returns has the instant of the
\* occurredAt, the status and the reportedById the request supplied (status
\* Open when none was supplied) and its location, crimeType and description
\* with the white space at their ends removed; the create response carries the
\* stored incident, a stored incident is changed only by the write of a PATCH,
\* and a fetch by id returns the stored incident.
C25_RoundTripOfTrimmed ==
    /\ [](FetchedIsStored)
    /\ [][/\ ChangedOnlyByPatch
          /\ CreatedIsStored
          /\ \A r \in CreateRequests :
                (IncidentPOST(r) /\ last'.status = 201)
                    => /\ DateOf(last'.record.occurredAt) = DateOf(r.body.obj["occurredAt"])
                       /\ last'.record.location = Trim(r.body.obj["location"])
                       /\ last'.record.crimeType = Trim(r.body.obj["crimeType"])
                       /\ last'.record.description = Trim(r.body.obj["description"])
                       /\ last'.record.reportedById = r.body.obj["reportedById"]
                       /\ last'.record.status =
                             IF "status" \in DOMAIN r.body.obj
                             THEN r.body.obj["status"] ELSE "Open"]_vars

\* C25 as stated: the created incident has the texts the request supplied.
C25_RoundTripOfSupplied ==
    [][\A r \in CreateRequests :
          (IncidentPOST(r) /\ last'.status = 201)
              => /\ DateOf(last'.record.occurredAt) = DateOf(r.body.obj["occurredAt"])
                 /\ last'.record.location = r.body.obj["location"]
                 /\ last'.record.crimeType = r.body.obj["crimeType"]
                 /\ last'.record.description = r.body.obj["description"]
                 /\ last'.record.reportedById = r.body.obj["reportedById"]
                 /\ last'.record.status =
                       IF "status" \in DOMAIN r.body.obj
                       THEN r.body.obj["status"] ELSE "Open"]_vars

\* The incident created Closed with a padded description was fetched by its id
\* while a second incident was stored: the fetch returned the trimmed text.
C25_Witness ==
    /\ last.sent.kind = "GET /api/incidents/:id"
    /\ last.status = 200
    /\ last.record.status = "Closed"
    /\ last.record.description = <<"y">>
    /\ last.record.id \in DOMAIN incidents
    /\ Cardinality(DOMAIN incidents) = 2

(***************************************************************************)
(* The browser client: AuthProvider and the handlers of the pages that     *)
(* call the protected API.  A string the client holds is a token; a JWT    *)
(* that lacks a claim is a token without that field.                       *)
(***************************************************************************)
\* The empty string, and a string that is no JWT.
EmptyString == [NoTok EXCEPT !.fmt = "empty"]
Garbage == [NoTok EXCEPT !.fmt = "garbage"]
\* if (storedToken), !!token, !token
Truthy(t) == t \notin {NoTok, EmptyString}

ClaimNames == {"userId", "badgeId", "isAdmin", "iat", "exp"}
\* jose.decodeJwt(token) throws on a string that is no JWT, and reads the
\* payload of one without verifying it.
Decodes(t) == t.fmt = "jws"
decodeJwt(t) == [k \in DOMAIN t \cap ClaimNames |-> t[k]]
\* decoded.userId && decoded.badgeId !== undefined && decoded.isAdmin !== undefined
HasUserClaims(decoded) ==
    /\ "userId" \in DOMAIN decoded
    /\ decoded["userId"] # ""
    /\ "badgeId" \in DOMAIN decoded
    /\ "isAdmin" \in DOMAIN decoded
\* A check that never looks at the exp claim.
NeverExpired(decoded, currentTime) == TRUE
\* decoded.exp && decoded.exp > currentTime
NotExpired(decoded, currentTime) ==
    /\ "exp" \in DOMAIN decoded
    /\ decoded["exp"] # 0
    /\ decoded["exp"] > currentTime
UserClaims(decoded) == [k \in {"userId", "badgeId", "isAdmin"} |-> decoded[k]]

\* The effect AuthProvider runs when it mounts, at time now.
restore(c, now) ==
    LET storedToken == c.storage
        decoded == decodeJwt(storedToken)
        loaded == [c EXCEPT !.isLoading = FALSE]
    IN
    IF ~Truthy(storedToken) THEN loaded
    ELSE IF ~Decodes(storedToken) THEN [loaded EXCEPT !.storage = NoTok]
    ELSE IF NotExpired(decoded, now) /\ HasUserClaims(decoded)
    THEN [loaded EXCEPT !.token = storedToken, !.claims = UserClaims(decoded)]
    ELSE [loaded EXCEPT !.storage = NoTok]

\* AuthContext.login(newToken)
login(c, newToken) ==
    IF Decodes(newToken) /\ HasUserClaims(decodeJwt(newToken))
    THEN [c EXCEPT !.storage = newToken, !.token = newToken,
                   !.claims = UserClaims(decodeJwt(newToken)), !.pushed = "/dashboard"]
    ELSE [c EXCEPT !.storage = NoTok, !.token = NoTok, !.claims = NoData]

\* AuthContext.logout()
logout(c) ==
    [c EXCEPT !.storage = NoTok, !.token = NoTok, !.claims = NoData, !.pushed = "/login"]

\* const isAuthenticated = !!token
isAuthenticated(c) == Truthy(c.token)

\* response.ok
Ok(status) == status \in 200..299
\* String.prototype.includes, on the messages the API sends and the handlers
\* throw: the pairs of a message and a part it includes.
Inclusions ==
    {<<"Unauthorized.", "Unauthorized">>,
     <<"Forbidden.", "Forbidden">>,
     <<"Forbidden: Not authorized.", "Forbidden">>,
     <<"Forbidden: You are not authorized to delete this evidence.", "Forbidden">>,
     <<"Invalid token (verification failed).", "token">>,
     <<"Invalid or expired token.", "token">>}
Includes(message, part) == <<message, part>> \in Inclusions

\* dashboard/page.tsx fetchIncidents, once the list request is answered.
fetchIncidents(c, response) ==
    IF response.status = 401 THEN logout(c) ELSE c
\* incidents/[id]/page.tsx fetchData, for each of its two requests.
fetchData(c, response) ==
    IF response.status = 401 THEN logout(c) ELSE c
\* IncidentForm processSubmit: the catch block sees the message of the body.
processSubmit(c, response) ==
    IF /\ ~Ok(response.status)
       /\ \/ Includes(response.msg, "Unauthorized")
          \/ Includes(response.msg, "token")
          \/ Includes(response.msg, "401")
    THEN logout(c) ELSE c
\* incidents/[id]/page.tsx handleAddEvidenceSubmit
handleAddEvidenceSubmit(c, response) ==
    IF ~Ok(response.status) /\ Includes(response.msg, "Unauthorized")
    THEN logout(c) ELSE c
\* The message the two modal handlers throw, "" when they throw nothing.
Thrown(response, notFound) ==
    IF response.status = 401 THEN "Unauthorized."
    ELSE IF response.status = 403 THEN "Forbidden."
    ELSE IF response.status = 404 THEN notFound
    ELSE IF ~Ok(response.status) /\ response.status # 204 THEN response.msg
    ELSE ""
\* incidents/[id]/page.tsx handleIncidentModalConfirm
handleIncidentModalConfirm(c, response) ==
    LET message == Thrown(response, "Incident not found.") IN
    IF Includes(message, "Unauthorized") \/ Includes(message, "Forbidden")
    THEN logout(c) ELSE c
\* incidents/[id]/page.tsx confirmEvidenceDelete
confirmEvidenceDelete(c, response) ==
    LET message == Thrown(response, "Evidence not found (already deleted?).") IN
    IF Includes(message, "Unauthorized") \/ Includes(message, "Forbidden")
    THEN logout(c) ELSE c

Flows ==
    {"fetchIncidents", "fetchData", "processSubmit", "handleAddEvidenceSubmit",
     "handleIncidentModalConfirm", "confirmEvidenceDelete"}
\* What the handler that sent the request does with the response.
Handled(flow, c, response) ==
    IF flow = "fetchIncidents" THEN fetchIncidents(c, response)
    ELSE IF flow = "fetchData" THEN fetchData(c, response)
    ELSE IF flow = "processSubmit" THEN processSubmit(c, response)
    ELSE IF flow = "handleAddEvidenceSubmit" THEN handleAddEvidenceSubmit(c, response)
    ELSE IF flow = "handleIncidentModalConfirm"
    THEN handleIncidentModalConfirm(c, response)
    ELSE confirmEvidenceDelete(c, response)

\* The requests the handlers send, each with the token in memory.
FlowRequest(flow, kind, id, evId, body) ==
    [kind |-> kind, id |-> id, evId |-> evId, auth |-> Bearer(client.token),
     xhdr |-> NoHeaders, body |-> body, flow |-> flow]
FlowRequests ==
    {FlowRequest("fetchIncidents", "GET /api/incidents", 0, 0, NoBody)}
        \cup {FlowRequest("fetchData", k, i, 0, NoBody) :
                k \in {"GET /api/incidents/:id", "GET /api/incidents/:id/evidence"},
                i \in PathIncidentIds}
        \cup {FlowRequest("processSubmit", "POST /api/incidents", 0, 0,
                          OwnPost(Bearer(client.token)))}
        \cup {FlowRequest("processSubmit", "PATCH /api/incidents/:id", i, 0,
                          Json([location |-> <<" ", "y">>])) : i \in PathIncidentIds}
        \cup {FlowRequest("handleAddEvidenceSubmit", "POST /api/incidents/:id/evidence",
                          i, 0, PhotoBody) : i \in PathIncidentIds}
        \cup {FlowRequest("handleIncidentModalConfirm", "PATCH /api/incidents/:id", i, 0,
                          ClosePatch) : i \in PathIncidentIds}
        \cup {FlowRequest("handleIncidentModalConfirm", "DELETE /api/incidents/:id", i, 0,
                          NoBody) : i \in PathIncidentIds}
        \cup {FlowRequest("confirmEvidenceDelete",
                          "DELETE /api/incidents/:id/evidence/:evidenceId", i, 1, NoBody) :
                i \in PathIncidentIds}

\* No response waits for its handler.
Settled == pending[1] = Idle /\ (last.sent.flow = "" \/ last = client.handled)
ServerVars ==
    <<limits, secret, users, store, clock, ticks, dbEdits, issued, discarded, pending,
      last, deleted204>>

\* AuthProvider mounts (the page is loaded or reloaded): its state is new,
\* sessionStorage is kept, and the effect runs.
Mount ==
    /\ Settled
    /\ client' = restore([NoClient EXCEPT !.storage = client.storage,
                                          !.handled = client.handled], clock)
    /\ UNCHANGED ServerVars
ClientLogin(t) ==
    /\ Settled
    /\ ~client.isLoading
    /\ client' = login(client, t)
    /\ UNCHANGED ServerVars
ClientLogout ==
    /\ Settled
    /\ ~client.isLoading
    /\ client' = logout(client)
    /\ UNCHANGED ServerVars
\* A handler of a page sends its request.
ClientSend ==
    /\ Settled
    /\ isAuthenticated(client)
    /\ \E r \in FlowRequests : Handle(1, r)
\* The handler that sent the request receives the response.
ClientReceive ==
    /\ pending[1] = Idle
    /\ last.sent.flow \in Flows
    /\ last # client.handled
    /\ client' = [Handled(last.sent.flow, client, last) EXCEPT !.handled = last]
    /\ UNCHANGED ServerVars

\* The strings no login of this server has issued: a token signed with another
\* key, tokens that lack a claim, the empty string and a string that is no JWT.
Forged == SignJWT(SeedPayload("cu2"), "HS256", AttackerKey, 0)
Lacking(k) == [x \in DOMAIN Forged \ {k} |-> Forged[x]]
OddStrings ==
    {Garbage, EmptyString, Forged, Lacking("userId"), Lacking("badgeId"),
     Lacking("isAdmin"), Lacking("exp")}

\* The pages in use: officers log in, the client keeps or changes its token,
\* its handlers call the API, and then the tokens expire.
InitPages == InitWith(SmallStore)
NextPages ==
    \/ Settled /\ ticks = 0 /\ LoginAs({"cu2", "cu3"})
    \/ Settled /\ ticks = 0 /\ TickBy({TokenLifetime})
    \/ Mount
    \/ \E t \in issued : ClientLogin(t)
    \/ ClientSend
    \/ ClientReceive
    \/ Complete(1)
    \/ IncidentListCount(1)
SpecPages == InitPages /\ [][NextPages]_vars

\* C26: whenever a handler of a page receives a response, a status of 401 or
\* 403 clears the token in memory and in sessionStorage and pushes the login
\* route, and any other error status leaves the token, sessionStorage and the
\* claims as they were.
C26_AuthFailureLogsOut ==
    [][(client'.handled # client.handled)
          => /\ last.status \in {401, 403}
                  => /\ client'.token = NoTok
                     /\ client'.storage = NoTok
                     /\ client'.pushed = "/login"
             /\ (last.status \notin {401, 403} /\ ~Ok(last.status))
                  => /\ client'.token = client.token
                     /\ client'.storage = client.storage
                     /\ client'.claims = client.claims]_vars

\* AuthProvider alone: sessionStorage holds nothing or any string when the
\* page is first loaded; the provider mounts, login and logout are called with
\* issued tokens and with other strings, and time passes.
InitAuth ==
    /\ InitServer(SmallStore)
    /\ client \in {[NoClient EXCEPT !.storage = s] : s \in {NoTok} \cup OddStrings}
NextAuth ==
    \/ LoginAs({"cu1", "cu2"})
    \/ TickBy({1, TokenLifetime - 1})
    \/ Mount
    \/ \E t \in issued \cup OddStrings : ClientLogin(t)
    \/ ClientLogout
SpecAuth == InitAuth /\ [][NextAuth]_vars

\* A JWT without one of the claims userId, badgeId and isAdmin.
LacksUserClaim(t) == \E k \in {"userId", "badgeId", "isAdmin"} : k \notin DOMAIN t
\* A JWT whose exp claim is missing or not in the future.
Expired(t) == "exp" \notin DOMAIN t \/ t.exp <= clock
Cleared(c) ==
    /\ c.token = NoTok
    /\ c.storage = NoTok
    /\ c.claims = NoData
    /\ ~isAuthenticated(c)

\* C30: in every state isAuthenticated is true exactly when the token in memory
\* is not null, and then sessionStorage holds that token and userId, badgeId
\* and isAdmin are its decoded claims; logout clears the token, sessionStorage
\* and the claims; login with a string that is no JWT or a JWT that lacks a
\* claim, and a mount that finds a stored JWT that is expired or lacks a
\* claim, leave the client unauthenticated with sessionStorage empty.
C30_AuthStateFollowsToken ==
    /\ [](/\ isAuthenticated(client) <=> client.token # NoTok
          /\ client.token # NoTok
                => /\ client.storage = client.token
                   /\ \A k \in {"userId", "badgeId", "isAdmin"} :
                         /\ k \in DOMAIN client.token
                         /\ client.claims[k] = client.token[k])
    /\ [][/\ ClientLogout => Cleared(client')
          /\ \A t \in issued \cup OddStrings :
                (ClientLogin(t) /\ (t.fmt # "jws" \/ LacksUserClaim(t)))
                    => Cleared(client')
          /\ (Mount /\ client.storage.fmt = "jws"
                /\ (Expired(client.storage) \/ LacksUserClaim(client.storage)))
                    => Cleared(client')]_vars

\* The page was reloaded while a token was stored and the provider restored
\* it: the client is authenticated by an issued token and pushed no route.
C30_Witness ==
    /\ client.token \in issued
    /\ client.storage = client.token
    /\ client.pushed = ""
    /\ ~client.isLoading
    /\ clock > 0

\* Every route of the API in use: logins, the writes and reads of incidents
\* and evidence, and signups, one of which asks to be an admin.
AdminSignups ==
    Requests("POST /api/users", {0}, {0}, {NoAuth}, {NoHeaders},
             {Json(Merge([isAdmin |-> TRUE], UserBody(<<"NEW1">>, GoodPassword).obj)),
              UserBody(<<"NEW2">>, GoodPassword),
              UserBody(<<"OFFICER123">>, GoodPassword)})
NextAdmins ==
    \/ LoginAs(UserIds)
    \/ \E r \in PlainRequests : Handle(1, r)
    \/ Complete(1)
    \/ \E r \in AdminSignups : UserPOST(1, r)
    \/ UserPOSTCreate(1)
SpecAdmins == Init /\ [][NextAdmins]_vars

Admins(table) == {u \in DOMAIN table : table[u].isAdmin}

\* C27: in every state the admins are the admins of the initial state; no step
\* removes a user or changes a user's isAdmin flag, and a user a step adds is
\* no admin.
C27_AdminsNeverChange ==
    /\ [](Admins(users) = Admins(SeedUsers))
    /\ [][/\ \A u \in DOMAIN users :
                /\ u \in DOMAIN users'
                /\ users'[u].isAdmin = users[u].isAdmin
          /\ \A u \in DOMAIN users' \ DOMAIN users : ~users'[u].isAdmin]_vars

\* The signup whose body says isAdmin: true was answered 201, and the user it
\* created is no admin.
C27_Witness ==
    /\ last.sent.kind = "POST /api/users"
    /\ last.status = 201
    /\ last.newId \in DOMAIN users
    /\ users[last.newId].badgeId = BadgeOf(<<"NEW1">>)
    /\ ~users[last.newId].isAdmin

\* Connection c completes the write its request awaited.
Completes(c, op) == pending[c].op = op /\ pending'[c] = Idle

\* C28: in every state, whatever the interleaving of the requests of two
\* connections, the incident of each stored evidence item is stored; and an
\* evidence create whose incident is gone when it is issued stores nothing and
\* is answered 400 or 404.
C28_NoOrphanEvidence ==
    /\ [](\A e \in DOMAIN evidence : evidence[e].incidentId \in DOMAIN incidents)
    /\ [][\A c \in Connections :
             (Completes(c, "evcreate") /\ pending[c].sent.id \notin DOMAIN incidents)
                 => /\ evidence' = evidence
                    /\ incidents' = incidents
                    /\ last'.status \in {400, 404}]_vars

\* An evidence POST found its incident, the incident was deleted by the other
\* connection, and the create was answered 400.
C28_Witness ==
    /\ last.sent.kind = "POST /api/incidents/:id/evidence"
    /\ last.ran
    /\ last.status = 400
    /\ last.msg = "Foreign key constraint violation."
    /\ last.sent.id \notin DOMAIN incidents
    /\ evidence = [x \in {} |-> NoData]
    /\ deleted204[<<"incident", last.sent.id>>] = 1

\* C29: an update whose incident is gone when it is issued is answered 404 and
\* leaves incidents and evidence as they are; and each update or delete that
\* finds its incident is issued for an admin or for the incident's reporter.
C29_PatchAfterDeleteIs404 ==
    [][\A c \in Connections :
          /\ (Completes(c, "update") /\ pending[c].sent.id \notin DOMAIN incidents)
                => /\ last'.status = 404
                   /\ incidents' = incidents
                   /\ evidence' = evidence
          /\ ((Completes(c, "update") \/ Completes(c, "delete"))
                /\ pending[c].sent.id \in DOMAIN incidents)
                => \/ pending[c].admin
                   \/ incidents[pending[c].sent.id].reportedById = pending[c].uid]_vars

\* A PATCH passed its checks, the incident and its evidence were deleted by the
\* other connection, and the update was answered 404.
C29_Witness ==
    /\ last.sent.kind = "PATCH /api/incidents/:id"
    /\ last.ran
    /\ last.status = 404
    /\ last.msg = "Incident not found."
    /\ last.sent.id \notin DOMAIN incidents
    /\ deleted204[<<"incident", last.sent.id>>] = 1
    /\ nextEvidenceId > 1
    /\ evidence = [x \in {} |-> NoData]

====
